---- MODULE Spec2Model ----
(***************************************************************************)
(* Airborne action state machine and collision stepper of the player       *)
(* character (src/game/mario_step.c, src/game/mario_actions_airborne.c).   *)
(*                                                                         *)
(* f32 quantities (positions, heights, velocities) are fixed-point         *)
(* integers with Scale units per world unit, so that a quarter of a        *)
(* velocity and the constants 3.2, 1.6 and 37.5 are exact.  s16 angles are *)
(* integers in -32768..32767 that wrap.  The surface query service, the    *)
(* scripting hooks and the server/level settings are external: what they   *)
(* answer is an input of the action that asks.                             *)
(***************************************************************************)
EXTENDS Integers, Sequences, FiniteSets, TLC

VARIABLES
    m,                  \* struct MarioState of the actor
    pc,                 \* where the actor's update is
    stepArg,            \* perform_air_step: stepArg
    i,                  \* perform_air_step: quarter-steps executed so far
    stepResult,         \* perform_air_step: stepResult
    quarterStepResult,  \* perform_air_step: quarterStepResult
    q,                  \* the answers of the surface queries of the last quarter-step
    intendedPos,        \* perform_air_step: intendedPos of the last quarter-step
    pre,                \* the state before the last operation
    trace,              \* results of the quarter-steps of this perform_air_step call
    ret,                \* return value of the last operation
    calls,              \* operations performed so far in this run
    tick,               \* mario_execute_airborne_action: what the current tick asked and did
    cancel,             \* mario_execute_airborne_action: return value of the last tick
    gMarioStates,       \* the actor slots, where several actors are updated
    originOffset        \* gWaterSurfacePseudoFloor.originOffset

vars == <<m, pc, stepArg, i, stepResult, quarterStepResult, q, intendedPos,
          pre, trace, ret, calls, tick, cancel, gMarioStates, originOffset>>

-----------------------------------------------------------------------------
(* Numbers *)

Scale == 4 * 10

F(x) == x * Scale

\* f32 division by 4.0f (exact on the multiples of 4 the model feeds it)
Div4(x) == IF x >= 0 THEN x \div 4 ELSE -((-x) \div 4)

\* f32 division, rounded toward zero at the model's resolution
FDiv(a, b) == IF (a >= 0) = (b > 0) THEN (IF a >= 0 THEN a ELSE -a) \div (IF b >= 0 THEN b ELSE -b)
              ELSE -((IF a >= 0 THEN a ELSE -a) \div (IF b >= 0 THEN b ELSE -b))

\* conversion to s16: wraps modulo 2^16
S16(x) == ((x + 32768) % 65536) - 32768

Max(a, b) == IF a > b THEN a ELSE b

-----------------------------------------------------------------------------
(* Step results (mario_step.h) *)

AIR_STEP_NONE            == "AIR_STEP_NONE"
AIR_STEP_LANDED          == "AIR_STEP_LANDED"
AIR_STEP_HIT_WALL        == "AIR_STEP_HIT_WALL"
AIR_STEP_GRABBED_LEDGE   == "AIR_STEP_GRABBED_LEDGE"
AIR_STEP_GRABBED_CEILING == "AIR_STEP_GRABBED_CEILING"
AIR_STEP_HIT_LAVA_WALL   == "AIR_STEP_HIT_LAVA_WALL"

AIR_STEP_CHECK_LEDGE_GRAB == "AIR_STEP_CHECK_LEDGE_GRAB"
AIR_STEP_CHECK_HANG       == "AIR_STEP_CHECK_HANG"

-----------------------------------------------------------------------------
(* Surfaces (struct Surface): type, normal in thousandths, force, and the   *)
(* object the pointer refers to (ref); NULL is the record NoSurface.        *)

Surf(type, nx, ny, nz) ==
    [ref |-> "level", type |-> type, nx |-> nx, ny |-> ny, nz |-> nz, force |-> 0]

NoSurface == [ref |-> "NULL", type |-> "NULL", nx |-> 0, ny |-> 0, nz |-> 0, force |-> 0]

gWaterSurfacePseudoFloor ==
    [ref |-> "gWaterSurfacePseudoFloor", type |-> "SURFACE_VERY_SLIPPERY",
     nx |-> 0, ny |-> 1000, nz |-> 0, force |-> 0]

\* atan2s(normal.z, normal.x) of a surface: the yaw of its normal, for the
\* axis-aligned and diagonal normals the model uses
atan2s(z, x) ==
    CASE x = 0 /\ z > 0 -> 0
      [] x > 0 /\ z > 0 -> 8192
      [] x > 0 /\ z = 0 -> 16384
      [] x > 0 /\ z < 0 -> 24576
      [] x = 0 /\ z < 0 -> -32768
      [] x < 0 /\ z < 0 -> -24576
      [] x < 0 /\ z = 0 -> -16384
      [] x < 0 /\ z > 0 -> -8192
      [] OTHER -> 0

\* sins/coss (engine/math_util.h) of an s16 angle, in thousandths: a table
\* lookup, here with one entry per multiple of 0x2000; an angle between two
\* multiples reads the entry of the nearest one
sins(a) ==
    LET k == ((S16(a) + 4096) \div 8192) % 8
    IN  CASE k \in {0, 4} -> 0
          [] k = 2 -> 1000
          [] k = 6 -> -1000
          [] k \in {1, 3} -> 707
          [] OTHER -> -707

coss(a) == sins(a + 16384)

\* f32 product of a fixed-point value and a thousandths factor
Mul1000(x, k) == FDiv(x * k, 1000)

-----------------------------------------------------------------------------
(* Actions (sm64.h): identifier and the ACT_FLAG_* bits it carries *)


ActFlags(a) ==
    CASE a \in {"ACT_JUMP", "ACT_DOUBLE_JUMP", "ACT_LONG_JUMP", "ACT_AIR_THROW"} ->
            {"ACT_FLAG_AIR", "ACT_FLAG_ALLOW_VERTICAL_WIND_ACTION", "ACT_FLAG_CONTROL_JUMP_HEIGHT"}
      [] a \in {"ACT_FREEFALL", "ACT_LUA_AIR", "ACT_CRAZY_BOX_BOUNCE"} ->
            {"ACT_FLAG_AIR", "ACT_FLAG_ALLOW_VERTICAL_WIND_ACTION"}
      [] a \in {"ACT_RIDING_SHELL_JUMP"} ->
            {"ACT_FLAG_AIR", "ACT_FLAG_RIDING_SHELL", "ACT_FLAG_CONTROL_JUMP_HEIGHT"}
      [] a \in {"ACT_BACKWARD_AIR_KB", "ACT_LAVA_BOOST", "ACT_GETTING_BLOWN", "ACT_SOFT_BONK"} ->
            {"ACT_FLAG_AIR", "ACT_FLAG_INVULNERABLE", "ACT_FLAG_ALLOW_VERTICAL_WIND_ACTION"}
      [] a \in {"ACT_TWIRLING", "ACT_FLYING", "ACT_SHOT_FROM_CANNON", "ACT_GROUND_POUND",
                "ACT_DIVE", "ACT_JUMP_KICK", "ACT_SLIDE_KICK", "ACT_VERTICAL_WIND",
                "ACT_AIR_HIT_WALL", "ACT_WATER_PLUNGE"} ->
            {"ACT_FLAG_AIR"}
      [] a \in {"ACT_RIDING_SHELL_GROUND"} ->
            {"ACT_FLAG_MOVING", "ACT_FLAG_RIDING_SHELL", "ACT_FLAG_ATTACKING"}
      [] a \in {"ACT_METAL_WATER_FALLING"} -> {"ACT_FLAG_METAL_WATER"}
      [] a \in {"ACT_BUBBLED", "ACT_QUICKSAND_DEATH"} -> {"ACT_FLAG_INTANGIBLE"}
      [] OTHER -> {}

HasFlag(a, f) == f \in ActFlags(a)

-----------------------------------------------------------------------------
(* struct MarioState *)

V3(x, y, z) == [x |-> x, y |-> y, z |-> z]

MarioInit ==
    [action |-> "ACT_JUMP", prevAction |-> "ACT_IDLE", actionArg |-> 0,
     actionState |-> 0, actionTimer |-> 0,
     input |-> {}, flags |-> {"MARIO_CAP_ON_HEAD"},
     pos |-> V3(0, F(5), 0), vel |-> V3(0, 0, 0), forwardVel |-> 0,
     slideVelX |-> 0, slideVelZ |-> 0,
     faceAngle |-> [pitch |-> 0, yaw |-> 0, roll |-> 0], angleVel |-> [pitch |-> 0, yaw |-> 0],
     floor |-> Surf("SURFACE_DEFAULT", 0, 1000, 0), floorHeight |-> 0, floorAngle |-> 0,
     ceil |-> NoSurface, wall |-> NoSurface,
     peakHeight |-> F(5), hurtCounter |-> 0, squishTimer |-> 0,
     quicksandDepth |-> 0, waterLevel |-> F(-10000), hitboxHeight |-> F(160),
     unkC4 |-> 0, heldObj |-> FALSE, wingFlutter |-> FALSE,
     intendedYaw |-> 0, intendedMag |-> 0, slideYaw |-> 0,
     charSoundWaaaooow |-> 0, collideLevelBounds |-> 0,
     ceilHeight |-> F(10000), health |-> 2176, playerIndex |-> 0, wallKickTimer |-> 0,
     oMarioBurnTimer |-> 0]

\* mario_set_forward_vel (mario.c)
mario_set_forward_vel(ms, forwardVel) ==
    LET sx == Mul1000(forwardVel, sins(ms.faceAngle.yaw))
        sz == Mul1000(forwardVel, coss(ms.faceAngle.yaw))
    IN  [ms EXCEPT !.forwardVel = forwardVel, !.slideVelX = sx, !.slideVelZ = sz,
                   !.vel = V3(sx, ms.vel.y, sz)]

\* mario_update_wall (mario.c): the referenced wall is the last candidate
mario_update_wall(ms, walls) ==
    [ms EXCEPT !.wall = IF Len(walls) > 0 THEN walls[Len(walls)] ELSE NoSurface]

\* mutant of set_mario_action: a transition into the current action keeps
\* the action-local state and timer
set_mario_action_SameActionKeeps(ms, action, actionArg) ==
    IF action = ms.action
    THEN [ms EXCEPT !.prevAction = ms.action, !.actionArg = actionArg]
    ELSE [ms EXCEPT !.prevAction = ms.action, !.action = action, !.actionArg = actionArg,
                    !.actionState = 0, !.actionTimer = 0]

\* set_mario_action (mario.c): the set-action primitive
set_mario_action(ms, action, actionArg) ==
    [ms EXCEPT !.prevAction = ms.action, !.action = action, !.actionArg = actionArg,
               !.actionState = 0, !.actionTimer = 0]

\* drop_and_set_mario_action (mario.c): releases what is held, then sets the action
drop_and_set_mario_action(ms, action, actionArg) ==
    set_mario_action([ms EXCEPT !.heldObj = FALSE], action, actionArg)

\* set_water_plunge_action (mario.c): the forced transition into the water-entry action
set_water_plunge_action(ms) == set_mario_action(ms, "ACT_WATER_PLUNGE", 0)

\* mario_throw_held_object (interaction.c): the held object leaves the hands
mario_throw_held_object(ms) == [ms EXCEPT !.heldObj = FALSE]

\* approach_f32 (engine/math_util.h)
approach_f32(current, target, inc, dec) ==
    IF current < target
    THEN (IF current + inc > target THEN target ELSE current + inc)
    ELSE (IF current - dec < target THEN target ELSE current - dec)

\* sqrtf, rounded down to the fixed-point grid: the root of n lies in lo..hi
RECURSIVE sqrtf(_, _, _)
sqrtf(n, lo, hi) ==
    IF lo >= hi THEN lo
    ELSE LET mid == (lo + hi + 1) \div 2
         IN  IF mid * mid <= n THEN sqrtf(n, mid, hi) ELSE sqrtf(n, lo, mid - 1)

\* clamp (engine/math_util.h)
clamp(x, lo, hi) == IF x < lo THEN lo ELSE IF x > hi THEN hi ELSE x

-----------------------------------------------------------------------------
(* Bonk (mario_step.c); wallNormal is the normal of the referenced wall *)

mario_bonk_reflection(ms, negateSpeed) ==
    LET wallAngle == atan2s(ms.wall.nz, ms.wall.nx)
        m1 == IF ms.wall # NoSurface
              THEN [ms EXCEPT !.faceAngle.yaw = S16(wallAngle - S16(@ - wallAngle))]
              ELSE ms
    IN  IF negateSpeed THEN mario_set_forward_vel(m1, -m1.forwardVel)
        ELSE [m1 EXCEPT !.faceAngle.yaw = S16(@ + 32768)]

-----------------------------------------------------------------------------
(* Quicksand (mario_step.c) *)

\* mutant of SinkCapped: the depth grows past the cap
SinkCapped_NoCap(ms, sinkingSpeed, cap) ==
    [m |-> [ms EXCEPT !.quicksandDepth = @ + sinkingSpeed], ret |-> FALSE]

\* the shallow, moving and regular cases: the depth grows up to a cap
SinkCapped(ms, sinkingSpeed, cap) ==
    [m |-> [ms EXCEPT !.quicksandDepth =
                IF ms.quicksandDepth + sinkingSpeed >= cap THEN cap
                ELSE ms.quicksandDepth + sinkingSpeed],
     ret |-> FALSE]

\* mutant of SinkDeep: the depth has to exceed the hitbox height
SinkDeep_Exceeds(ms, sinkingSpeed) ==
    LET m1 == [ms EXCEPT !.quicksandDepth = @ + sinkingSpeed]
    IN  IF m1.quicksandDepth > ms.hitboxHeight
        THEN [m |-> drop_and_set_mario_action(m1, "ACT_QUICKSAND_DEATH", 0), ret |-> TRUE]
        ELSE [m |-> m1, ret |-> FALSE]

\* the deep cases: death once the depth reaches the hitbox height
SinkDeep(ms, sinkingSpeed) ==
    LET m1 == [ms EXCEPT !.quicksandDepth = @ + sinkingSpeed]
    IN  IF m1.quicksandDepth >= ms.hitboxHeight
        THEN [m |-> drop_and_set_mario_action(m1, "ACT_QUICKSAND_DEATH", 0), ret |-> TRUE]
        ELSE [m |-> m1, ret |-> FALSE]

\* allow is the answer of HOOK_ALLOW_HAZARD_SURFACE, menu is gDjuiInMainMenu
mario_update_quicksand(ms, sinkingSpeed, allow, menu) ==
    IF HasFlag(ms.action, "ACT_FLAG_RIDING_SHELL") \/ ~allow \/ menu
    THEN [m |-> [ms EXCEPT !.quicksandDepth = 0], ret |-> FALSE]
    ELSE LET m1 == IF ms.quicksandDepth < F(11) \div 10
                   THEN [ms EXCEPT !.quicksandDepth = F(11) \div 10] ELSE ms
             floorType == IF ms.floor # NoSurface THEN ms.floor.type ELSE "SURFACE_DEFAULT"
         IN  CASE floorType = "SURFACE_SHALLOW_QUICKSAND" -> SinkCapped(m1, sinkingSpeed, F(10))
               [] floorType = "SURFACE_SHALLOW_MOVING_QUICKSAND" ->
                      SinkCapped(m1, sinkingSpeed, F(25))
               [] floorType \in {"SURFACE_QUICKSAND", "SURFACE_MOVING_QUICKSAND"} ->
                      SinkCapped(m1, sinkingSpeed, F(60))
               [] floorType \in {"SURFACE_DEEP_QUICKSAND", "SURFACE_DEEP_MOVING_QUICKSAND"} ->
                      SinkDeep(m1, sinkingSpeed)
               [] floorType \in {"SURFACE_INSTANT_QUICKSAND", "SURFACE_INSTANT_MOVING_QUICKSAND"} ->
                      [m |-> drop_and_set_mario_action(m1, "ACT_QUICKSAND_DEATH", 0),
                       ret |-> TRUE]
               [] OTHER -> [m |-> [m1 EXCEPT !.quicksandDepth = 0], ret |-> FALSE]

\* mario_update_moving_sand.  force is the s16 force of the floor; the index
\* into the four-entry table sMovingSandSpeeds is force >> 8, and where it
\* lies outside the table the value read is whatever follows or precedes the
\* table in memory: outside
mario_update_moving_sand(ms, outside) ==
    LET sMovingSandSpeeds == <<12, 8, 4, 0>>
        force == IF ms.floor = NoSurface THEN 0 ELSE ms.floor.force
        index == IF force >= 0 THEN force \div 256 ELSE -((255 - force) \div 256)
        pushAngle == S16(force * 256)
        pushSpeed == IF index \in 0..3 THEN F(sMovingSandSpeeds[index + 1]) ELSE outside
    IN  IF /\ ms.floor # NoSurface
           /\ ms.floor.type \in {"SURFACE_DEEP_MOVING_QUICKSAND",
                                  "SURFACE_SHALLOW_MOVING_QUICKSAND",
                                  "SURFACE_MOVING_QUICKSAND",
                                  "SURFACE_INSTANT_MOVING_QUICKSAND"}
        THEN [m |-> [ms EXCEPT !.vel.x = @ + Mul1000(pushSpeed, sins(pushAngle)),
                               !.vel.z = @ + Mul1000(pushSpeed, coss(pushAngle))],
              ret |-> TRUE, index |-> index, pushAngle |-> pushAngle, pushSpeed |-> pushSpeed]
        ELSE [m |-> ms, ret |-> FALSE, index |-> 0, pushAngle |-> 0, pushSpeed |-> 0]

-----------------------------------------------------------------------------
(* Collision stepper: air quarter-step (mario_step.c)                       *)
(*                                                                          *)
(* qq holds what the surface queries, the hooks and the settings answer     *)
(* during one quarter-step:                                                 *)
(*   upperWalls, lowerWalls  the walls the two probes found                 *)
(*   push                    how far the wall probes moved nextPos          *)
(*   floor, floorHeight      find_floor at nextPos                          *)
(*   ceilHeight              vec3f_mario_ceil at nextPos                    *)
(*   waterLevel, allowWater  find_water_level, HOOK_ALLOW_FORCE_WATER_ACTION*)
(*   ledges                  per lower wall, find_floor behind that wall    *)
(*   bouncy                  gServerSettings.bouncyLevelBounds              *)
(*   fixCollisionBugs, fixFalseLedgeGrab   gLevelValues                     *)

\* the wall candidates a per-wall loop visits: all of them, or (with the
\* collision fix off, where the loop index jumps to numWalls - 1) the last
WallCandidates(walls, fix) ==
    IF fix THEN [k \in 1..Len(walls) |-> k] ELSE <<Len(walls)>>

\* mutant of check_ledge_grab: the first test is vel[1] >= 0
check_ledge_grab_RejectsZero(ms, wall, ledge, ip, nextPos, qq) ==
    LET ledgePos == V3(nextPos.x - FDiv(wall.nx * F(60), 1000), ledge.height,
                       nextPos.z - FDiv(wall.nz * F(60), 1000))
    IN  IF \/ ms.vel.y >= 0
           \/ (nextPos.x - ip.x) * ms.vel.x + (nextPos.z - ip.z) * ms.vel.z > 0
           \/ ledge.floor = NoSurface
           \/ (qq.fixCollisionBugs /\ qq.fixFalseLedgeGrab /\ ledge.floor.ny < 906)
           \/ ledgePos.y - nextPos.y <= F(100)
        THEN [ok |-> FALSE, m |-> ms]
        ELSE [ok |-> TRUE,
              m |-> [ms EXCEPT !.pos = ledgePos, !.floor = ledge.floor,
                               !.floorHeight = ledgePos.y,
                               !.floorAngle = atan2s(ledge.floor.nz, ledge.floor.nx),
                               !.faceAngle.pitch = 0,
                               !.faceAngle.yaw = S16(atan2s(wall.nz, wall.nx) + 32768)]]

\* mutant of check_ledge_grab: a ledge exactly 100 above the target is grabbed
check_ledge_grab_AtHundred(ms, wall, ledge, ip, nextPos, qq) ==
    LET ledgePos == V3(nextPos.x - FDiv(wall.nx * F(60), 1000), ledge.height,
                       nextPos.z - FDiv(wall.nz * F(60), 1000))
    IN  IF \/ ms.vel.y > 0
           \/ (nextPos.x - ip.x) * ms.vel.x + (nextPos.z - ip.z) * ms.vel.z > 0
           \/ ledge.floor = NoSurface
           \/ (qq.fixCollisionBugs /\ qq.fixFalseLedgeGrab /\ ledge.floor.ny < 906)
           \/ ledgePos.y - nextPos.y < F(100)
        THEN [ok |-> FALSE, m |-> ms]
        ELSE [ok |-> TRUE,
              m |-> [ms EXCEPT !.pos = ledgePos, !.floor = ledge.floor,
                               !.floorHeight = ledgePos.y,
                               !.floorAngle = atan2s(ledge.floor.nz, ledge.floor.nx),
                               !.faceAngle.pitch = 0,
                               !.faceAngle.yaw = S16(atan2s(wall.nz, wall.nx) + 32768)]]

check_ledge_grab(ms, wall, ledge, ip, nextPos, qq) ==
    LET displacementX == nextPos.x - ip.x
        displacementZ == nextPos.z - ip.z
        ledgePos == V3(nextPos.x - FDiv(wall.nx * F(60), 1000), ledge.height,
                       nextPos.z - FDiv(wall.nz * F(60), 1000))
    IN  IF ms.vel.y > 0 THEN [ok |-> FALSE, m |-> ms]
        ELSE IF displacementX * ms.vel.x + displacementZ * ms.vel.z > 0
             THEN [ok |-> FALSE, m |-> ms]
        ELSE IF ledge.floor = NoSurface THEN [ok |-> FALSE, m |-> ms]
        ELSE IF qq.fixCollisionBugs /\ qq.fixFalseLedgeGrab /\ ledge.floor.ny < 906
             THEN [ok |-> FALSE, m |-> ms]
        ELSE IF ledgePos.y - nextPos.y <= F(100) THEN [ok |-> FALSE, m |-> ms]
        ELSE [ok |-> TRUE,
              m |-> [ms EXCEPT !.pos = ledgePos,
                               !.floor = ledge.floor,
                               !.floorHeight = ledgePos.y,
                               !.floorAngle = atan2s(ledge.floor.nz, ledge.floor.nx),
                               !.faceAngle.pitch = 0,
                               !.faceAngle.yaw = S16(atan2s(wall.nz, wall.nx) + 32768)]]

\* the ledge-grab loop of perform_air_quarter_step over the lower walls
RECURSIVE LedgeGrabLoop(_, _, _, _, _, _)
LedgeGrabLoop(ms, cands, k, ip, nextPos, qq) ==
    IF k > Len(cands) THEN [ok |-> FALSE, m |-> ms]
    ELSE LET r == check_ledge_grab(ms, qq.lowerWalls[cands[k]], qq.ledges[cands[k]],
                                   ip, nextPos, qq)
         IN  IF r.ok THEN r ELSE LedgeGrabLoop(r.m, cands, k + 1, ip, nextPos, qq)

\* the wall-inspection loop of the free-motion branch
RECURSIVE WallLoop(_, _, _, _)
WallLoop(ms, walls, cands, k) ==
    IF k > Len(cands) THEN [m |-> ms, result |-> AIR_STEP_NONE]
    ELSE LET wall == walls[cands[k]]
             wallDYaw == S16(atan2s(wall.nz, wall.nx) - ms.faceAngle.yaw)
         IN  IF wall.type = "SURFACE_BURNING"
             THEN [m |-> [ms EXCEPT !.wall = wall], result |-> AIR_STEP_HIT_LAVA_WALL]
             ELSE IF wallDYaw < -24576 \/ wallDYaw > 24576
             THEN [m |-> [ms EXCEPT !.wall = wall, !.flags = @ \cup {"MARIO_UNKNOWN_30"}],
                   result |-> AIR_STEP_HIT_WALL]
             ELSE WallLoop(ms, walls, cands, k + 1)

\* mutant of AirQStepNoFloor: the boundary hook is notified before the test
\* against the recorded floor height
AirQStepNoFloor_NotifyFirst(ms, nextPos, qq) ==
    LET m0 == [ms EXCEPT !.collideLevelBounds = @ + 1]
    IN  IF nextPos.y <= m0.floorHeight
        THEN [m |-> [m0 EXCEPT !.pos.y = m0.floorHeight], result |-> AIR_STEP_LANDED]
        ELSE [m |-> [m0 EXCEPT !.pos.y = nextPos.y], result |-> AIR_STEP_HIT_WALL]

\* the floor == NULL branch: out of bounds
AirQStepNoFloor(ms, nextPos, qq) ==
    IF nextPos.y <= ms.floorHeight
    THEN [m |-> [ms EXCEPT !.pos.y = ms.floorHeight], result |-> AIR_STEP_LANDED]
    ELSE LET m1 == [ms EXCEPT !.pos.y = nextPos.y]
             m2 == IF qq.bouncy # "BOUNCY_LEVEL_BOUNDS_OFF"
                   THEN LET m3 == [m1 EXCEPT !.faceAngle.yaw = S16(@ + 32768)]
                            v  == FDiv(3 * m3.forwardVel, 2)
                        IN  mario_set_forward_vel(m3,
                                IF qq.bouncy = "BOUNCY_LEVEL_BOUNDS_ON_CAP"
                                THEN clamp(v, F(-500), F(500)) ELSE v)
                   ELSE m1
         IN  [m |-> [m2 EXCEPT !.collideLevelBounds = @ + 1], result |-> AIR_STEP_HIT_WALL]

\* mutant of AirQStepLanding: the clearance test is dropped, the horizontal
\* motion is always committed
AirQStepLanding_AlwaysCommit(ms, nextPos, floor, floorHeight, ceilHeight) ==
    [m |-> [ms EXCEPT !.pos = V3(nextPos.x, floorHeight, nextPos.z),
                      !.floor = floor, !.floorHeight = floorHeight],
     result |-> AIR_STEP_LANDED]

\* the branch nextPos[1] <= floorHeight: landing
AirQStepLanding(ms, nextPos, floor, floorHeight, ceilHeight) ==
    LET m1 == IF ceilHeight - floorHeight > ms.hitboxHeight
              THEN [ms EXCEPT !.pos.x = nextPos.x, !.pos.z = nextPos.z,
                              !.floor = floor, !.floorHeight = floorHeight]
              ELSE ms
    IN  [m |-> [m1 EXCEPT !.pos.y = floorHeight], result |-> AIR_STEP_LANDED]

\* the branch nextPos[1] + hitboxHeight > ceilHeight: ceiling
\* mutant of AirQStepCeiling: the hang flag of stepArg is not looked at
AirQStepCeiling_AnyStepArg(ms, nextPos, sa) ==
    IF ms.vel.y >= 0
    THEN [m |-> [ms EXCEPT !.vel.y = 0],
          result |-> IF ms.ceil # NoSurface /\ ms.ceil.type = "SURFACE_HANGABLE"
                     THEN AIR_STEP_GRABBED_CEILING ELSE AIR_STEP_NONE]
    ELSE IF nextPos.y <= ms.floorHeight
    THEN [m |-> [ms EXCEPT !.pos.y = ms.floorHeight], result |-> AIR_STEP_LANDED]
    ELSE [m |-> [ms EXCEPT !.pos.y = nextPos.y], result |-> AIR_STEP_HIT_WALL]

\* mutant of AirQStepCeiling: only a strictly positive vertical velocity
\* counts as upward
AirQStepCeiling_ZeroFalls(ms, nextPos, sa) ==
    IF ms.vel.y > 0
    THEN [m |-> [ms EXCEPT !.vel.y = 0],
          result |-> IF AIR_STEP_CHECK_HANG \in sa /\ ms.ceil # NoSurface
                        /\ ms.ceil.type = "SURFACE_HANGABLE"
                     THEN AIR_STEP_GRABBED_CEILING ELSE AIR_STEP_NONE]
    ELSE IF nextPos.y <= ms.floorHeight
    THEN [m |-> [ms EXCEPT !.pos.y = ms.floorHeight], result |-> AIR_STEP_LANDED]
    ELSE [m |-> [ms EXCEPT !.pos.y = nextPos.y], result |-> AIR_STEP_HIT_WALL]

AirQStepCeiling(ms, nextPos, sa) ==
    IF ms.vel.y >= 0
    THEN [m |-> [ms EXCEPT !.vel.y = 0],
          result |-> IF AIR_STEP_CHECK_HANG \in sa /\ ms.ceil # NoSurface
                        /\ ms.ceil.type = "SURFACE_HANGABLE"
                     THEN AIR_STEP_GRABBED_CEILING ELSE AIR_STEP_NONE]
    ELSE IF nextPos.y <= ms.floorHeight
    THEN [m |-> [ms EXCEPT !.pos.y = ms.floorHeight], result |-> AIR_STEP_LANDED]
    ELSE [m |-> [ms EXCEPT !.pos.y = nextPos.y], result |-> AIR_STEP_HIT_WALL]

\* the ledge-grab branch
AirQStepLedge(ms, ip, nextPos, floor, floorHeight, qq) ==
    LET g == LedgeGrabLoop(ms, WallCandidates(qq.lowerWalls, qq.fixCollisionBugs),
                           1, ip, nextPos, qq)
    IN  IF g.ok THEN [m |-> g.m, result |-> AIR_STEP_GRABBED_LEDGE]
        ELSE [m |-> [g.m EXCEPT !.pos = nextPos, !.floor = floor,
                                !.floorHeight = floorHeight],
              result |-> AIR_STEP_NONE]

\* the last branch: the motion is committed and the walls inspected
AirQStepFree(ms, nextPos, floor, floorHeight, qq) ==
    LET moved == [ms EXCEPT !.pos = nextPos, !.floor = floor, !.floorHeight = floorHeight]
    IN  IF Len(qq.upperWalls) > 0
        THEN WallLoop(mario_update_wall(moved, qq.upperWalls), qq.upperWalls,
                      WallCandidates(qq.upperWalls, qq.fixCollisionBugs), 1)
        ELSE IF Len(qq.lowerWalls) > 0
        THEN WallLoop(mario_update_wall(moved, qq.lowerWalls), qq.lowerWalls,
                      WallCandidates(qq.lowerWalls, qq.fixCollisionBugs), 1)
        ELSE [m |-> moved, result |-> AIR_STEP_NONE]

\* whether the quarter-step replaces the floor found by the water surface
UsesWaterFloor(ms, qq) ==
    /\ HasFlag(ms.action, "ACT_FLAG_RIDING_SHELL")
    /\ qq.floorHeight < qq.waterLevel
    /\ qq.allowWater

\* what the quarter-step leaves in gWaterSurfacePseudoFloor.originOffset, a
\* field of the one global surface every actor's water floor points to; off
\* is what it held before
PseudoFloorOriginOffset(ms, qq, off) ==
    IF qq.floor # NoSurface /\ UsesWaterFloor(ms, qq) THEN qq.waterLevel ELSE off

perform_air_quarter_step(ms, ip, sa, qq) ==
    LET nextPos == V3(ip.x + qq.push.x, ip.y, ip.z + qq.push.z)
        m0 == [ms EXCEPT !.wall = NoSurface]
        floorHeight == IF UsesWaterFloor(m0, qq) THEN qq.waterLevel ELSE qq.floorHeight
        floor == IF UsesWaterFloor(m0, qq) THEN gWaterSurfacePseudoFloor ELSE qq.floor
    IN  IF qq.floor = NoSurface THEN AirQStepNoFloor(m0, nextPos, qq)
        ELSE IF nextPos.y <= floorHeight
        THEN AirQStepLanding(m0, nextPos, floor, floorHeight, qq.ceilHeight)
        ELSE IF nextPos.y + m0.hitboxHeight > qq.ceilHeight
        THEN AirQStepCeiling(m0, nextPos, sa)
        ELSE IF AIR_STEP_CHECK_LEDGE_GRAB \in sa /\ Len(qq.upperWalls) = 0
                /\ Len(qq.lowerWalls) > 0
        THEN AirQStepLedge(m0, ip, nextPos, floor, floorHeight, qq)
        ELSE AirQStepFree(m0, nextPos, floor, floorHeight, qq)

-----------------------------------------------------------------------------
(* The ground quarter-step (mario_step.c) *)

\* the per-wall loop of perform_ground_quarter_step
RECURSIVE GroundWallLoop(_, _, _, _)
GroundWallLoop(ms, walls, cands, k) ==
    IF k > Len(cands) THEN "GROUND_STEP_NONE"
    ELSE LET wall == walls[cands[k]]
             wallDYaw == S16(atan2s(wall.nz, wall.nx) - ms.faceAngle.yaw)
         IN  IF (wallDYaw >= 10922 /\ wallDYaw <= 21845)
                \/ (wallDYaw <= -10922 /\ wallDYaw >= -21845)
             THEN GroundWallLoop(ms, walls, cands, k + 1)
             ELSE "GROUND_STEP_HIT_WALL_CONTINUE_QSTEPS"

\* mutant of perform_ground_quarter_step: a target exactly 100 above the
\* floor leaves the ground
perform_ground_quarter_step_AtHundred(ms, ip, qq) ==
    LET nextPos == V3(ip.x + qq.push.x, ip.y, ip.z + qq.push.z)
        m0 == mario_update_wall(ms, qq.upperWalls)
        floorHeight == IF UsesWaterFloor(m0, qq) THEN qq.waterLevel ELSE qq.floorHeight
        floor == IF UsesWaterFloor(m0, qq) THEN gWaterSurfacePseudoFloor ELSE qq.floor
    IN  IF qq.floor = NoSurface
        THEN [m |-> [(IF qq.bouncy # "BOUNCY_LEVEL_BOUNDS_OFF"
                      THEN LET m1 == [m0 EXCEPT !.faceAngle.yaw = S16(@ + 32768)]
                               v  == FDiv(3 * m1.forwardVel, 2)
                           IN  mario_set_forward_vel(m1,
                                   IF qq.bouncy = "BOUNCY_LEVEL_BOUNDS_ON_CAP"
                                   THEN clamp(v, F(-500), F(500)) ELSE v)
                      ELSE m0) EXCEPT !.collideLevelBounds = @ + 1],
              result |-> "GROUND_STEP_HIT_WALL_STOP_QSTEPS"]
        ELSE IF nextPos.y >= floorHeight + F(100)
        THEN (IF nextPos.y + m0.hitboxHeight >= qq.ceilHeight
              THEN [m |-> m0, result |-> "GROUND_STEP_HIT_WALL_STOP_QSTEPS"]
              ELSE [m |-> [m0 EXCEPT !.pos = nextPos, !.floor = floor,
                                     !.floorHeight = floorHeight],
                    result |-> "GROUND_STEP_LEFT_GROUND"])
        ELSE IF floorHeight + m0.hitboxHeight >= qq.ceilHeight
        THEN [m |-> m0, result |-> "GROUND_STEP_HIT_WALL_STOP_QSTEPS"]
        ELSE LET m1 == [m0 EXCEPT !.pos = V3(nextPos.x, floorHeight, nextPos.z),
                                  !.floor = floor, !.floorHeight = floorHeight]
             IN  [m |-> m1,
                  result |-> IF Len(qq.upperWalls) > 0
                             THEN GroundWallLoop(m1, qq.upperWalls,
                                      WallCandidates(qq.upperWalls, qq.fixCollisionBugs), 1)
                             ELSE "GROUND_STEP_NONE"]

perform_ground_quarter_step(ms, ip, qq) ==
    LET nextPos == V3(ip.x + qq.push.x, ip.y, ip.z + qq.push.z)
        m0 == mario_update_wall(ms, qq.upperWalls)
        floorHeight == IF UsesWaterFloor(m0, qq) THEN qq.waterLevel ELSE qq.floorHeight
        floor == IF UsesWaterFloor(m0, qq) THEN gWaterSurfacePseudoFloor ELSE qq.floor
    IN  IF qq.floor = NoSurface
        THEN [m |-> [(IF qq.bouncy # "BOUNCY_LEVEL_BOUNDS_OFF"
                      THEN LET m1 == [m0 EXCEPT !.faceAngle.yaw = S16(@ + 32768)]
                               v  == FDiv(3 * m1.forwardVel, 2)
                           IN  mario_set_forward_vel(m1,
                                   IF qq.bouncy = "BOUNCY_LEVEL_BOUNDS_ON_CAP"
                                   THEN clamp(v, F(-500), F(500)) ELSE v)
                      ELSE m0) EXCEPT !.collideLevelBounds = @ + 1],
              result |-> "GROUND_STEP_HIT_WALL_STOP_QSTEPS"]
        ELSE IF nextPos.y > floorHeight + F(100)
        THEN (IF nextPos.y + m0.hitboxHeight >= qq.ceilHeight
              THEN [m |-> m0, result |-> "GROUND_STEP_HIT_WALL_STOP_QSTEPS"]
              ELSE [m |-> [m0 EXCEPT !.pos = nextPos, !.floor = floor,
                                     !.floorHeight = floorHeight],
                    result |-> "GROUND_STEP_LEFT_GROUND"])
        ELSE IF floorHeight + m0.hitboxHeight >= qq.ceilHeight
        THEN [m |-> m0, result |-> "GROUND_STEP_HIT_WALL_STOP_QSTEPS"]
        ELSE LET m1 == [m0 EXCEPT !.pos = V3(nextPos.x, floorHeight, nextPos.z),
                                  !.floor = floor, !.floorHeight = floorHeight]
             IN  [m |-> m1,
                  result |-> IF Len(qq.upperWalls) > 0
                             THEN GroundWallLoop(m1, qq.upperWalls,
                                      WallCandidates(qq.upperWalls, qq.fixCollisionBugs), 1)
                             ELSE "GROUND_STEP_NONE"]

\* mutant of GroundStepReturn: the loop's last result is returned as it is
GroundStepReturn_Raw(sr) == sr

\* what perform_ground_step returns for the result its loop ended with
GroundStepReturn(sr) ==
    IF sr = "GROUND_STEP_HIT_WALL_CONTINUE_QSTEPS" THEN "GROUND_STEP_HIT_WALL" ELSE sr

-----------------------------------------------------------------------------
(* Gravity and vertical wind (mario_step.c) *)

apply_twirl_gravity(ms) ==
    LET heavy == ms.angleVel.yaw > 1024
        terminalVelocity == IF heavy THEN FDiv(F(-75) * 1024, ms.angleVel.yaw) ELSE F(-75)
        v == ms.vel.y - (IF heavy THEN FDiv(F(4) * 1024, ms.angleVel.yaw) ELSE F(4))
    IN  [ms EXCEPT !.vel.y = IF v < terminalVelocity THEN terminalVelocity ELSE v]

\* mutant of should_strengthen_gravity_for_jump_ascent: the threshold itself counts
should_strengthen_gravity_for_jump_ascent_AtThreshold(ms) ==
    IF "MARIO_UNKNOWN_08" \notin ms.flags THEN FALSE
    ELSE IF HasFlag(ms.action, "ACT_FLAG_INTANGIBLE") \/ HasFlag(ms.action, "ACT_FLAG_INVULNERABLE")
    THEN FALSE
    ELSE IF "INPUT_A_DOWN" \notin ms.input /\ ms.vel.y >= F(20)
    THEN HasFlag(ms.action, "ACT_FLAG_CONTROL_JUMP_HEIGHT")
    ELSE FALSE

should_strengthen_gravity_for_jump_ascent(ms) ==
    IF "MARIO_UNKNOWN_08" \notin ms.flags THEN FALSE
    ELSE IF HasFlag(ms.action, "ACT_FLAG_INTANGIBLE") \/ HasFlag(ms.action, "ACT_FLAG_INVULNERABLE")
    THEN FALSE
    ELSE IF "INPUT_A_DOWN" \notin ms.input /\ ms.vel.y > F(20)
    THEN HasFlag(ms.action, "ACT_FLAG_CONTROL_JUMP_HEIGHT")
    ELSE FALSE

\* vel[1] -= accel, clamped once to the terminal velocity
GravityRule(ms, accel, terminal) ==
    [ms EXCEPT !.vel.y = IF ms.vel.y - accel < terminal THEN terminal ELSE ms.vel.y - accel]

\* mutant of DefaultGravity: the clamp to the terminal velocity is missing
DefaultGravity_NoClamp(ms) == [ms EXCEPT !.vel.y = @ - F(4)]

\* the final else branch of apply_gravity
DefaultGravity(ms) == GravityRule(ms, F(4), F(-75))

\* mutant of WingCapGravity: the rebound is not capped at -37.5
WingCapGravity_FreeRebound(ms) ==
    LET v == ms.vel.y - F(2)
        limit == -(F(75) \div 2)
    IN  [ms EXCEPT !.wingFlutter = TRUE,
                   !.vel.y = IF v < limit THEN v + F(4) ELSE v]

\* the wing-cap branch of apply_gravity
WingCapGravity(ms) ==
    LET v == ms.vel.y - F(2)
        limit == -(F(75) \div 2)
    IN  [ms EXCEPT !.wingFlutter = TRUE,
                   !.vel.y = IF v < limit
                             THEN (IF v + F(4) > limit THEN limit ELSE v + F(4))
                             ELSE v]

\* mutant of GravityRuleOf: the ascending-jump rule is tried before the
\* rules of the named actions
GravityRuleOf_AscentFirst(ms, gh) ==
    IF gh.handled THEN "hook"
    ELSE IF should_strengthen_gravity_for_jump_ascent(ms) THEN "jump_ascent"
    ELSE IF ms.action = "ACT_TWIRLING" /\ ms.vel.y < 0 THEN "twirl"
    ELSE IF ms.action = "ACT_SHOT_FROM_CANNON" THEN "cannon"
    ELSE IF ms.action \in {"ACT_LONG_JUMP", "ACT_SLIDE_KICK", "ACT_BBH_ENTER_SPIN"} THEN "long_jump"
    ELSE IF ms.action \in {"ACT_LAVA_BOOST", "ACT_FALL_AFTER_STAR_GRAB"} THEN "lava_boost"
    ELSE IF ms.action = "ACT_GETTING_BLOWN" THEN "getting_blown"
    ELSE IF HasFlag(ms.action, "ACT_FLAG_METAL_WATER") THEN "metal_water"
    ELSE IF "MARIO_WING_CAP" \in ms.flags /\ ms.vel.y < 0 /\ "INPUT_A_DOWN" \in ms.input
    THEN "wing_cap"
    ELSE "default"

\* the name of the rule apply_gravity selects; gh is what the
\* ACTION_HOOK_GRAVITY hook answers
GravityRuleOf(ms, gh) ==
    IF gh.handled THEN "hook"
    ELSE IF ms.action = "ACT_TWIRLING" /\ ms.vel.y < 0 THEN "twirl"
    ELSE IF ms.action = "ACT_SHOT_FROM_CANNON" THEN "cannon"
    ELSE IF ms.action \in {"ACT_LONG_JUMP", "ACT_SLIDE_KICK", "ACT_BBH_ENTER_SPIN"} THEN "long_jump"
    ELSE IF ms.action \in {"ACT_LAVA_BOOST", "ACT_FALL_AFTER_STAR_GRAB"} THEN "lava_boost"
    ELSE IF ms.action = "ACT_GETTING_BLOWN" THEN "getting_blown"
    ELSE IF should_strengthen_gravity_for_jump_ascent(ms) THEN "jump_ascent"
    ELSE IF HasFlag(ms.action, "ACT_FLAG_METAL_WATER") THEN "metal_water"
    ELSE IF "MARIO_WING_CAP" \in ms.flags /\ ms.vel.y < 0 /\ "INPUT_A_DOWN" \in ms.input
    THEN "wing_cap"
    ELSE "default"

apply_gravity(ms, gh) ==
    LET rule == GravityRuleOf(ms, gh)
    IN  CASE rule = "hook" -> [ms EXCEPT !.vel.y = @ + gh.dv]
          [] rule = "twirl" -> apply_twirl_gravity(ms)
          [] rule = "cannon" -> GravityRule(ms, F(1), F(-75))
          [] rule = "long_jump" -> GravityRule(ms, F(2), F(-75))
          [] rule = "lava_boost" -> GravityRule(ms, F(32) \div 10, F(-65))
          [] rule = "getting_blown" -> GravityRule(ms, ms.unkC4, F(-75))
          [] rule = "jump_ascent" -> [ms EXCEPT !.vel.y = Div4(@)]
          [] rule = "metal_water" -> GravityRule(ms, F(16) \div 10, F(-16))
          [] rule = "wing_cap" -> WingCapGravity(ms)
          [] OTHER -> DefaultGravity(ms)

\* allow is what HOOK_ALLOW_HAZARD_SURFACE answers for the vertical wind
apply_vertical_wind(ms, allow) ==
    LET offsetY == ms.pos.y + F(1500)
        maxVelY == IF offsetY >= 0 THEN FDiv(F(10000) * Scale, offsetY + F(200)) ELSE F(50)
        v == ms.vel.y + FDiv(maxVelY, 8)
    IN  IF ms.action # "ACT_GROUND_POUND" /\ allow
           /\ ms.floor # NoSurface /\ ms.floor.type = "SURFACE_VERTICAL_WIND"
           /\ F(-3000) < offsetY /\ offsetY < F(2000)
           /\ ms.vel.y < maxVelY
        THEN [ms EXCEPT !.vel.y = IF v > maxVelY THEN maxVelY ELSE v]
        ELSE ms

-----------------------------------------------------------------------------
(* Fall damage (mario_actions_airborne.c) *)

\* mutant of damageHeight: the minor damage starts one unit lower
damageHeight_Lower == F(1149)

damageHeight == F(1150)

\* mutant of FallHurt: the cap on the head does not count
FallHurt_IgnoresCap(ms, withCap, withoutCap) ==
    [ms EXCEPT !.hurtCounter = @ + withoutCap]

\* m->hurtCounter += (m->flags & MARIO_CAP_ON_HEAD) ? withCap : withoutCap
FallHurt(ms, withCap, withoutCap) ==
    [ms EXCEPT !.hurtCounter =
        @ + (IF "MARIO_CAP_ON_HEAD" \in ms.flags THEN withCap ELSE withoutCap)]

\* slippery is what mario_floor_is_slippery (mario.c) answers for the floor
check_fall_damage(ms, hardFallAction, slippery) ==
    LET fallHeight == ms.peakHeight - ms.pos.y
    IN  IF /\ ms.action # "ACT_TWIRLING"
           /\ ms.floor # NoSurface
           /\ ms.floor.type # "SURFACE_BURNING"
           /\ ms.vel.y < F(-55)
        THEN IF fallHeight > F(3000)
             THEN [m |-> drop_and_set_mario_action(FallHurt(ms, 16, 24), hardFallAction, 4),
                   ret |-> TRUE]
             ELSE IF fallHeight > damageHeight /\ ~slippery
             THEN [m |-> [FallHurt(ms, 8, 12) EXCEPT !.squishTimer = 30], ret |-> FALSE]
             ELSE [m |-> ms, ret |-> FALSE]
        ELSE [m |-> ms, ret |-> FALSE]

-----------------------------------------------------------------------------
(* Airborne helpers (mario_actions_airborne.c)                              *)
(*                                                                          *)
(* env holds what the hooks, the level and the settings answer while a      *)
(* handler runs:                                                            *)
(*   allowHWind, allowLava   HOOK_ALLOW_HAZARD_SURFACE for horizontal wind  *)
(*                           and for a lava wall                            *)
(*   menu                    gDjuiInMainMenu                                *)
(*   terrainType             m->area->terrainType & TERRAIN_MASK            *)
(*   floorFlags              m->floor->flags & 0x01                         *)
(*   slippery                mario_floor_is_slippery(m)                     *)
(*   bouncy                  gServerSettings.bouncyLevelBounds              *)
(*   loopEnd                 curAnim->loopEnd of the animation being played *)
(*   fixBonks                gLevelValues.fixCollisionBugs &&               *)
(*                           gLevelValues.fixCollisionBugsGroundPoundBonks  *)
(*   animResult              whether set_character_animation returns a      *)
(*                           non-zero value                                 *)
(*   allowDeath, canBubble   HOOK_ON_DEATH, mario_can_bubble(m)             *)

\* mutant of play_far_fall_sound: the latch flag is not tested
play_far_fall_sound_NoLatch(ms) ==
    IF /\ ~HasFlag(ms.action, "ACT_FLAG_INVULNERABLE")
       /\ ms.action # "ACT_TWIRLING"
       /\ ms.action # "ACT_FLYING"
       /\ ms.peakHeight - ms.pos.y > F(1150)
    THEN [ms EXCEPT !.flags = @ \cup {"MARIO_UNKNOWN_18"}, !.charSoundWaaaooow = @ + 1]
    ELSE ms

\* mutant of play_far_fall_sound: the check is never made
play_far_fall_sound_Never(ms) == ms

play_far_fall_sound(ms) ==
    IF /\ ~HasFlag(ms.action, "ACT_FLAG_INVULNERABLE")
       /\ ms.action # "ACT_TWIRLING"
       /\ ms.action # "ACT_FLYING"
       /\ "MARIO_UNKNOWN_18" \notin ms.flags
       /\ ms.peakHeight - ms.pos.y > F(1150)
    THEN [ms EXCEPT !.flags = @ \cup {"MARIO_UNKNOWN_18"}, !.charSoundWaaaooow = @ + 1]
    ELSE ms

lava_boost_on_wall(ms, env) ==
    IF ~env.allowLava \/ env.menu THEN [m |-> ms, ret |-> FALSE]
    ELSE LET m1 == [ms EXCEPT !.faceAngle.yaw = atan2s(ms.wall.nz, ms.wall.nx),
                              !.forwardVel = IF @ < F(24) THEN F(24) ELSE @]
             m2 == IF "MARIO_METAL_CAP" \notin m1.flags THEN FallHurt(m1, 12, 18) ELSE m1
         IN  [m |-> drop_and_set_mario_action(m2, "ACT_LAVA_BOOST", 1), ret |-> TRUE]

\* mutant of check_kick_or_dive_in_air: a forward velocity of 28 dives
check_kick_or_dive_in_air_DiveAt28(ms) ==
    IF "INPUT_B_PRESSED" \in ms.input
    THEN [m |-> set_mario_action(ms, IF ms.forwardVel >= F(28) THEN "ACT_DIVE"
                                     ELSE "ACT_JUMP_KICK", 0),
          ret |-> TRUE]
    ELSE [m |-> ms, ret |-> FALSE]

check_kick_or_dive_in_air(ms) ==
    IF "INPUT_B_PRESSED" \in ms.input
    THEN [m |-> set_mario_action(ms, IF ms.forwardVel > F(28) THEN "ACT_DIVE"
                                     ELSE "ACT_JUMP_KICK", 0),
          ret |-> TRUE]
    ELSE [m |-> ms, ret |-> FALSE]

should_get_stuck_in_ground(ms, env) ==
    /\ ms.floor # NoSurface
    /\ env.terrainType \in {"TERRAIN_SNOW", "TERRAIN_SAND"}
    /\ ms.floor.type # "SURFACE_BURNING"
    /\ ms.floor.type \notin {"SURFACE_HARD", "SURFACE_HARD_SLIPPERY",
                             "SURFACE_HARD_VERY_SLIPPERY", "SURFACE_HARD_NOT_SLIPPERY"}
    /\ env.floorFlags = 0
    /\ ms.peakHeight - ms.pos.y > F(1000)
    /\ ms.floor.ny >= 866

check_fall_damage_or_get_stuck(ms, hardFallAction, env) ==
    IF should_get_stuck_in_ground(ms, env)
    THEN [m |-> drop_and_set_mario_action(ms, "ACT_FEET_STUCK_IN_GROUND", 0), ret |-> TRUE]
    ELSE check_fall_damage(ms, hardFallAction, env.slippery)

\* mutant of check_horizontal_wind: the speed is 48 when the cap triggers
check_horizontal_wind_Speed48(ms, env) ==
    IF ~env.allowHWind THEN [m |-> ms, ret |-> FALSE]
    ELSE IF ms.floor # NoSurface /\ ms.floor.type = "SURFACE_HORIZONTAL_WIND"
    THEN LET pushAngle == S16(ms.floor.force * 256)
             sx == ms.slideVelX + Mul1000(F(12) \div 10, sins(pushAngle))
             sz == ms.slideVelZ + Mul1000(F(12) \div 10, coss(pushAngle))
             speed == sqrtf(sx * sx + sz * sz, 0, Max(sx, -sx) + Max(sz, -sz))
             cx == IF speed > F(48) THEN FDiv(sx * F(48), speed) ELSE sx
             cz == IF speed > F(48) THEN FDiv(sz * F(48), speed) ELSE sz
             capped == IF speed > F(48) THEN F(48)
                       ELSE IF speed > F(32) THEN F(32) ELSE speed
             slideYaw == atan2s(cz, cx)
         IN  [m |-> [ms EXCEPT !.slideVelX = cx, !.slideVelZ = cz,
                               !.vel = V3(cx, ms.vel.y, cz),
                               !.slideYaw = slideYaw,
                               !.forwardVel =
                                   Mul1000(capped, coss(ms.faceAngle.yaw - slideYaw))],
              ret |-> TRUE]
    ELSE [m |-> ms, ret |-> FALSE]

check_horizontal_wind(ms, env) ==
    IF ~env.allowHWind THEN [m |-> ms, ret |-> FALSE]
    ELSE IF ms.floor # NoSurface /\ ms.floor.type = "SURFACE_HORIZONTAL_WIND"
    THEN LET pushAngle == S16(ms.floor.force * 256)
             sx == ms.slideVelX + Mul1000(F(12) \div 10, sins(pushAngle))
             sz == ms.slideVelZ + Mul1000(F(12) \div 10, coss(pushAngle))
             speed == sqrtf(sx * sx + sz * sz, 0, Max(sx, -sx) + Max(sz, -sz))
             cx == IF speed > F(48) THEN FDiv(sx * F(48), speed) ELSE sx
             cz == IF speed > F(48) THEN FDiv(sz * F(48), speed) ELSE sz
             capped == IF speed > F(32) THEN F(32) ELSE speed
             slideYaw == atan2s(cz, cx)
         IN  [m |-> [ms EXCEPT !.slideVelX = cx, !.slideVelZ = cz,
                               !.vel = V3(cx, ms.vel.y, cz),
                               !.slideYaw = slideYaw,
                               !.forwardVel =
                                   Mul1000(capped, coss(ms.faceAngle.yaw - slideYaw))],
              ret |-> TRUE]
    ELSE [m |-> ms, ret |-> FALSE]

update_air_without_turn(ms, env) ==
    LET w == check_horizontal_wind(ms, env)
    IN  IF w.ret THEN w.m
        ELSE LET dragThreshold == IF ms.action = "ACT_LONG_JUMP" THEN F(48) ELSE F(32)
                 f0 == approach_f32(ms.forwardVel, 0, F(35) \div 100, F(35) \div 100)
                 analog == "INPUT_NONZERO_ANALOG" \in ms.input
                 intendedDYaw == S16(ms.intendedYaw - ms.faceAngle.yaw)
                 intendedMag == FDiv(ms.intendedMag, 32)
                 f1 == IF analog
                       THEN f0 + FDiv(3 * Mul1000(intendedMag, coss(intendedDYaw)), 2)
                       ELSE f0
                 sidewaysSpeed == IF analog
                                  THEN 10 * Mul1000(intendedMag, sins(intendedDYaw))
                                  ELSE 0
                 f2 == IF f1 > dragThreshold THEN f1 - F(1) ELSE f1
                 f3 == IF f2 < F(-16) THEN f2 + F(2) ELSE f2
                 sx == Mul1000(f3, sins(ms.faceAngle.yaw))
                       + Mul1000(sidewaysSpeed, sins(ms.faceAngle.yaw + 16384))
                 sz == Mul1000(f3, coss(ms.faceAngle.yaw))
                       + Mul1000(sidewaysSpeed, coss(ms.faceAngle.yaw + 16384))
             IN  [ms EXCEPT !.forwardVel = f3, !.slideVelX = sx, !.slideVelZ = sz,
                            !.vel = V3(sx, ms.vel.y, sz)]

\* mutant of update_flying: the pitch is not clamped from above
update_flying_NoUpperClamp(ms, stickX, stickY, conv) ==
    LET ToS16(x) == IF x \in -32768 .. 32767 THEN x
                    ELSE IF conv = "wrap" THEN S16(x)
                    ELSE IF x > 0 THEN 32767 ELSE -32768
        approach_s32(current, target, inc, dec) ==
            IF current < target
            THEN (IF current + inc > target THEN target ELSE current + inc)
            ELSE (IF current - dec < target THEN target ELSE current - dec)
        \* update_flying_pitch
        targetPitchVel == S16(-ToS16(FDiv(stickY * FDiv(ms.forwardVel, 5), Scale)))
        av0 == ms.angleVel.pitch
        pitchVel ==
            S16(IF targetPitchVel > 0
                THEN (IF av0 < 0 THEN (IF av0 + 64 > 32 THEN 32 ELSE av0 + 64)
                      ELSE approach_s32(av0, targetPitchVel, 32, 64))
                ELSE IF targetPitchVel < 0
                THEN (IF av0 > 0 THEN (IF av0 - 64 < -32 THEN -32 ELSE av0 - 64)
                      ELSE approach_s32(av0, targetPitchVel, 64, 32))
                ELSE approach_s32(av0, 0, 64, 64))
        \* update_flying_yaw
        targetYawVel == S16(-ToS16(FDiv(stickX * FDiv(ms.forwardVel, 4), Scale)))
        av1 == ms.angleVel.yaw
        yawVel ==
            S16(IF targetYawVel > 0
                THEN (IF av1 < 0 THEN (IF av1 + 64 > 16 THEN 16 ELSE av1 + 64)
                      ELSE approach_s32(av1, targetYawVel, 16, 32))
                ELSE IF targetYawVel < 0
                THEN (IF av1 > 0 THEN (IF av1 - 64 < -16 THEN -16 ELSE av1 - 64)
                      ELSE approach_s32(av1, targetYawVel, 32, 16))
                ELSE approach_s32(av1, 0, 64, 64))
        yaw  == S16(ms.faceAngle.yaw + yawVel)
        roll == S16(20 * (-yawVel))
        \* update_flying
        fv1 == ms.forwardVel - (FDiv(2 * Scale * ms.faceAngle.pitch, 16384) + Scale \div 10)
        fv2 == fv1 - FDiv((Scale \div 2) * (1000 - coss(yawVel)), 1000)
        fv  == IF fv2 < 0 THEN 0 ELSE fv2
        p1  == IF fv > F(16)
               THEN ToS16(FDiv(ms.faceAngle.pitch * Scale + (fv - F(32)) * 6, Scale))
               ELSE IF fv > F(4)
               THEN ToS16(FDiv(ms.faceAngle.pitch * Scale + (fv - F(32)) * 10, Scale))
               ELSE S16(ms.faceAngle.pitch - 1024)
        p2  == S16(p1 + pitchVel)
        p3  == p2
        pitch == IF p3 < -10922 THEN -10922 ELSE p3
        vx  == Mul1000(Mul1000(fv, coss(pitch)), sins(yaw))
        vz  == Mul1000(Mul1000(fv, coss(pitch)), coss(yaw))
    IN  [ms EXCEPT !.angleVel = [pitch |-> pitchVel, yaw |-> yawVel],
                   !.faceAngle = [pitch |-> pitch, yaw |-> yaw, roll |-> roll],
                   !.forwardVel = fv,
                   !.vel = V3(vx, Mul1000(fv, sins(pitch)), vz),
                   !.slideVelX = vx, !.slideVelZ = vz]

\* update_flying with update_flying_pitch and update_flying_yaw; stickX and
\* stickY are the controller's stick, whole numbers here.  A conversion of an
\* f32 outside the s16 range to s16 has no defined value: conv is what the
\* build makes of it, the low 16 bits ("wrap") or the nearest s16
\* ("saturate").  approach_s32 is the one of engine/math_util.h.
update_flying(ms, stickX, stickY, conv) ==
    LET ToS16(x) == IF x \in -32768 .. 32767 THEN x
                    ELSE IF conv = "wrap" THEN S16(x)
                    ELSE IF x > 0 THEN 32767 ELSE -32768
        approach_s32(current, target, inc, dec) ==
            IF current < target
            THEN (IF current + inc > target THEN target ELSE current + inc)
            ELSE (IF current - dec < target THEN target ELSE current - dec)
        \* update_flying_pitch
        targetPitchVel == S16(-ToS16(FDiv(stickY * FDiv(ms.forwardVel, 5), Scale)))
        av0 == ms.angleVel.pitch
        pitchVel ==
            S16(IF targetPitchVel > 0
                THEN (IF av0 < 0 THEN (IF av0 + 64 > 32 THEN 32 ELSE av0 + 64)
                      ELSE approach_s32(av0, targetPitchVel, 32, 64))
                ELSE IF targetPitchVel < 0
                THEN (IF av0 > 0 THEN (IF av0 - 64 < -32 THEN -32 ELSE av0 - 64)
                      ELSE approach_s32(av0, targetPitchVel, 64, 32))
                ELSE approach_s32(av0, 0, 64, 64))
        \* update_flying_yaw
        targetYawVel == S16(-ToS16(FDiv(stickX * FDiv(ms.forwardVel, 4), Scale)))
        av1 == ms.angleVel.yaw
        yawVel ==
            S16(IF targetYawVel > 0
                THEN (IF av1 < 0 THEN (IF av1 + 64 > 16 THEN 16 ELSE av1 + 64)
                      ELSE approach_s32(av1, targetYawVel, 16, 32))
                ELSE IF targetYawVel < 0
                THEN (IF av1 > 0 THEN (IF av1 - 64 < -16 THEN -16 ELSE av1 - 64)
                      ELSE approach_s32(av1, targetYawVel, 32, 16))
                ELSE approach_s32(av1, 0, 64, 64))
        yaw  == S16(ms.faceAngle.yaw + yawVel)
        roll == S16(20 * (-yawVel))
        \* update_flying
        fv1 == ms.forwardVel - (FDiv(2 * Scale * ms.faceAngle.pitch, 16384) + Scale \div 10)
        fv2 == fv1 - FDiv((Scale \div 2) * (1000 - coss(yawVel)), 1000)
        fv  == IF fv2 < 0 THEN 0 ELSE fv2
        p1  == IF fv > F(16)
               THEN ToS16(FDiv(ms.faceAngle.pitch * Scale + (fv - F(32)) * 6, Scale))
               ELSE IF fv > F(4)
               THEN ToS16(FDiv(ms.faceAngle.pitch * Scale + (fv - F(32)) * 10, Scale))
               ELSE S16(ms.faceAngle.pitch - 1024)
        p2  == S16(p1 + pitchVel)
        p3  == IF p2 > 10922 THEN 10922 ELSE p2
        pitch == IF p3 < -10922 THEN -10922 ELSE p3
        vx  == Mul1000(Mul1000(fv, coss(pitch)), sins(yaw))
        vz  == Mul1000(Mul1000(fv, coss(pitch)), coss(yaw))
    IN  [ms EXCEPT !.angleVel = [pitch |-> pitchVel, yaw |-> yawVel],
                   !.faceAngle = [pitch |-> pitch, yaw |-> yaw, roll |-> roll],
                   !.forwardVel = fv,
                   !.vel = V3(vx, Mul1000(fv, sins(pitch)), vz),
                   !.slideVelX = vx, !.slideVelZ = vz]

\* mutant of update_air_with_turn: the slide velocity keeps its X component
update_air_with_turn_KeepsSlide(ms, env) ==
    LET w == check_horizontal_wind(ms, env)
    IN  IF w.ret THEN w.m
        ELSE LET dragThreshold == IF ms.action = "ACT_LONG_JUMP" THEN F(48) ELSE F(32)
                 f0 == approach_f32(ms.forwardVel, 0, F(35) \div 100, F(35) \div 100)
                 analog == "INPUT_NONZERO_ANALOG" \in ms.input
                 intendedDYaw == S16(ms.intendedYaw - ms.faceAngle.yaw)
                 intendedMag == FDiv(ms.intendedMag, 32)
                 f1 == IF analog
                       THEN f0 + FDiv(3 * Mul1000(intendedMag, coss(intendedDYaw)), 2)
                       ELSE f0
                 yaw == IF analog
                        THEN S16(ms.faceAngle.yaw
                                 + FDiv(Mul1000(intendedMag, sins(intendedDYaw)) * 512, Scale))
                        ELSE ms.faceAngle.yaw
                 f2 == IF f1 > dragThreshold THEN f1 - F(1) ELSE f1
                 f3 == IF f2 < F(-16) THEN f2 + F(2) ELSE f2
                 sx == Mul1000(f3, sins(yaw))
                 sz == Mul1000(f3, coss(yaw))
             IN  [ms EXCEPT !.forwardVel = f3, !.faceAngle.yaw = yaw,
                            !.slideVelX = ms.slideVelX, !.slideVelZ = sz,
                            !.vel = V3(sx, ms.vel.y, sz)]

\* update_air_with_turn: the update of the actions that turn in the air
update_air_with_turn(ms, env) ==
    LET w == check_horizontal_wind(ms, env)
    IN  IF w.ret THEN w.m
        ELSE LET dragThreshold == IF ms.action = "ACT_LONG_JUMP" THEN F(48) ELSE F(32)
                 f0 == approach_f32(ms.forwardVel, 0, F(35) \div 100, F(35) \div 100)
                 analog == "INPUT_NONZERO_ANALOG" \in ms.input
                 intendedDYaw == S16(ms.intendedYaw - ms.faceAngle.yaw)
                 intendedMag == FDiv(ms.intendedMag, 32)
                 f1 == IF analog
                       THEN f0 + FDiv(3 * Mul1000(intendedMag, coss(intendedDYaw)), 2)
                       ELSE f0
                 yaw == IF analog
                        THEN S16(ms.faceAngle.yaw
                                 + FDiv(Mul1000(intendedMag, sins(intendedDYaw)) * 512, Scale))
                        ELSE ms.faceAngle.yaw
                 f2 == IF f1 > dragThreshold THEN f1 - F(1) ELSE f1
                 f3 == IF f2 < F(-16) THEN f2 + F(2) ELSE f2
                 sx == Mul1000(f3, sins(yaw))
                 sz == Mul1000(f3, coss(yaw))
             IN  [ms EXCEPT !.forwardVel = f3, !.faceAngle.yaw = yaw,
                            !.slideVelX = sx, !.slideVelZ = sz,
                            !.vel = V3(sx, ms.vel.y, sz)]

\* update_lava_boost_or_twirling: the restricted update of ACT_LAVA_BOOST and
\* ACT_TWIRLING
update_lava_boost_or_twirling(ms) ==
    LET analog == "INPUT_NONZERO_ANALOG" \in ms.input
        intendedDYaw == S16(ms.intendedYaw - ms.faceAngle.yaw)
        intendedMag == FDiv(ms.intendedMag, 32)
        f1 == ms.forwardVel + Mul1000(intendedMag, coss(intendedDYaw))
        y1 == S16(ms.faceAngle.yaw + FDiv(Mul1000(intendedMag, sins(intendedDYaw)) * 1024, Scale))
        f2 == IF f1 < 0 THEN -f1 ELSE f1
        y2 == IF f1 < 0 THEN S16(y1 + 32768) ELSE y1
        f3 == IF f2 > F(32) THEN f2 - F(2) ELSE f2
        fv == IF analog THEN f3 ELSE ms.forwardVel
        yaw == IF analog THEN y2 ELSE ms.faceAngle.yaw
        sx == Mul1000(fv, sins(yaw))
        sz == Mul1000(fv, coss(yaw))
    IN  [ms EXCEPT !.forwardVel = fv, !.faceAngle.yaw = yaw,
                   !.slideVelX = sx, !.slideVelZ = sz, !.vel = V3(sx, ms.vel.y, sz)]

\* the AIR_STEP_HIT_WALL case of common_air_action_step
AirActionHitWall(ms, env) ==
    IF ms.forwardVel > F(16)
    THEN LET m1 == IF env.bouncy = "BOUNCY_LEVEL_BOUNDS_OFF" \/ ms.wall # NoSurface
                   THEN [mario_bonk_reflection(ms, FALSE) EXCEPT
                            !.faceAngle.yaw = S16(@ + 32768)]
                   ELSE ms
         IN  IF m1.wall # NoSurface THEN set_mario_action(m1, "ACT_AIR_HIT_WALL", 0)
             ELSE LET m2 == IF m1.vel.y > 0 THEN [m1 EXCEPT !.vel.y = 0] ELSE m1
                  IN  IF env.bouncy # "BOUNCY_LEVEL_BOUNDS_OFF" THEN m2
                      ELSE IF m2.forwardVel >= F(38)
                      THEN set_mario_action(m2, "ACT_BACKWARD_AIR_KB", 0)
                      ELSE set_mario_action(
                               IF m2.forwardVel > F(8) THEN mario_set_forward_vel(m2, F(-8))
                               ELSE m2,
                               "ACT_SOFT_BONK", 0)
    ELSE mario_set_forward_vel(ms, 0)

\* mutant of common_air_action_step: a landing sets no land action
common_air_action_step_NoLandAction(ms, landAction, sr, env) ==
    LET result == IF ms.action = "ACT_BUBBLED" /\ sr = AIR_STEP_HIT_LAVA_WALL
                  THEN AIR_STEP_HIT_WALL ELSE sr
    IN  CASE result = AIR_STEP_LANDED ->
                check_fall_damage_or_get_stuck(ms, "ACT_HARD_BACKWARD_GROUND_KB", env).m
          [] result = AIR_STEP_HIT_WALL -> AirActionHitWall(ms, env)
          [] result = AIR_STEP_GRABBED_LEDGE -> drop_and_set_mario_action(ms, "ACT_LEDGE_GRAB", 0)
          [] result = AIR_STEP_GRABBED_CEILING -> set_mario_action(ms, "ACT_START_HANGING", 0)
          [] result = AIR_STEP_HIT_LAVA_WALL -> lava_boost_on_wall(ms, env).m
          [] OTHER -> ms

\* common_air_action_step from the return of perform_air_step on: the switch
\* on its result sr
common_air_action_step(ms, landAction, sr, env) ==
    LET result == IF ms.action = "ACT_BUBBLED" /\ sr = AIR_STEP_HIT_LAVA_WALL
                  THEN AIR_STEP_HIT_WALL ELSE sr
    IN  CASE result = AIR_STEP_LANDED ->
                LET r == check_fall_damage_or_get_stuck(ms, "ACT_HARD_BACKWARD_GROUND_KB", env)
                IN  IF ~r.ret THEN set_mario_action(r.m, landAction, 0) ELSE r.m
          [] result = AIR_STEP_HIT_WALL -> AirActionHitWall(ms, env)
          [] result = AIR_STEP_GRABBED_LEDGE -> drop_and_set_mario_action(ms, "ACT_LEDGE_GRAB", 0)
          [] result = AIR_STEP_GRABBED_CEILING -> set_mario_action(ms, "ACT_START_HANGING", 0)
          [] result = AIR_STEP_HIT_LAVA_WALL -> lava_boost_on_wall(ms, env).m
          [] OTHER -> ms

-----------------------------------------------------------------------------
(* Airborne handlers (mario_actions_airborne.c).  A handler runs up to its  *)
(* call of perform_air_step: step says whether it makes the call, stepArg   *)
(* with what, and ret is what it returns when it does not; after the call   *)
(* it goes on with the switch on the step result.                           *)

NoStep(ms, r) == [m |-> ms, step |-> FALSE, stepArg |-> {}, ret |-> r]

act_jump(ms, env) ==
    LET k == check_kick_or_dive_in_air(ms)
    IN  IF k.ret THEN NoStep(k.m, TRUE)
        ELSE IF "INPUT_Z_PRESSED" \in ms.input
        THEN NoStep(set_mario_action(ms, "ACT_GROUND_POUND", 0), TRUE)
        ELSE [m |-> update_air_without_turn(ms, env), step |-> TRUE,
              stepArg |-> {AIR_STEP_CHECK_LEDGE_GRAB, AIR_STEP_CHECK_HANG}, ret |-> FALSE]

\* act_crazy_box_bounce up to its call of perform_air_step(m, 0)
act_crazy_box_bounce(ms, env) ==
    LET minSpeed == CASE ms.actionArg = 1 -> F(36)
                      [] ms.actionArg = 2 -> F(48)
                      [] OTHER -> F(32)
        m1 == CASE ms.actionArg = 0 -> [ms EXCEPT !.vel.y = F(45)]
                [] ms.actionArg = 1 -> [ms EXCEPT !.vel.y = F(60)]
                [] ms.actionArg = 2 -> [ms EXCEPT !.vel.y = F(100)]
                [] OTHER -> ms
        m2 == IF m1.forwardVel < minSpeed THEN mario_set_forward_vel(m1, minSpeed) ELSE m1
        m3 == IF ms.actionTimer = 0 THEN [m2 EXCEPT !.actionTimer = 1] ELSE ms
    IN  [m |-> update_air_without_turn(m3, env), step |-> TRUE, stepArg |-> {}, ret |-> FALSE]

\* act_crazy_box_bounce from the return of perform_air_step; local is
\* m->playerIndex == 0
act_crazy_box_bounce_switch(ms, sr, env, local) ==
    CASE sr = AIR_STEP_LANDED ->
            IF ms.actionArg < 2
            THEN set_mario_action(ms, "ACT_CRAZY_BOX_BOUNCE", ms.actionArg + 1)
            ELSE set_mario_action(IF ms.heldObj /\ local THEN [ms EXCEPT !.heldObj = FALSE]
                                  ELSE ms,
                                  "ACT_STOMACH_SLIDE", 0)
      [] sr = AIR_STEP_HIT_WALL -> mario_bonk_reflection(ms, FALSE)
      [] sr = AIR_STEP_HIT_LAVA_WALL -> lava_boost_on_wall(ms, env).m
      [] OTHER -> ms

act_freefall(ms, env) ==
    IF "INPUT_B_PRESSED" \in ms.input
    THEN NoStep(set_mario_action(ms, "ACT_DIVE", 0), TRUE)
    ELSE IF "INPUT_Z_PRESSED" \in ms.input
    THEN NoStep(set_mario_action(ms, "ACT_GROUND_POUND", 0), TRUE)
    ELSE [m |-> update_air_without_turn(ms, env), step |-> TRUE,
          stepArg |-> {AIR_STEP_CHECK_LEDGE_GRAB}, ret |-> FALSE]

act_air_throw(ms, env) ==
    LET m1 == [ms EXCEPT !.actionTimer = @ + 1]
        m2 == IF m1.actionTimer = 4 THEN mario_throw_held_object(m1) ELSE m1
    IN  [m |-> update_air_without_turn(m2, env), step |-> TRUE, stepArg |-> {}, ret |-> FALSE]

\* act_air_throw from the return of perform_air_step on
act_air_throw_switch(ms, sr, env) ==
    CASE sr = AIR_STEP_LANDED ->
            LET r == check_fall_damage_or_get_stuck(ms, "ACT_HARD_BACKWARD_GROUND_KB", env)
            IN  IF ~r.ret THEN [r.m EXCEPT !.action = "ACT_AIR_THROW_LAND"] ELSE r.m
      [] sr = AIR_STEP_HIT_WALL -> mario_set_forward_vel(ms, 0)
      [] sr = AIR_STEP_HIT_LAVA_WALL -> lava_boost_on_wall(ms, env).m
      [] OTHER -> ms

-----------------------------------------------------------------------------
(* Handlers written as one operator: sr is "call" when the handler is       *)
(* entered and the result of its perform_air_step call when it goes on      *)
(* after that call.                                                         *)

\* mutant of act_ground_pound: every plunge tick sets the downward velocity
\* to -50 again before its air step
act_ground_pound_HoldsSpeed(ms, sr, env) ==
    IF ms.actionState = 0
    THEN LET yOffset == F(20 - 2 * ms.actionTimer)
             m1 == IF ms.actionTimer < 10 /\ ms.pos.y + yOffset + F(160) < ms.ceilHeight
                   THEN [ms EXCEPT !.pos.y = @ + yOffset, !.peakHeight = ms.pos.y + yOffset]
                   ELSE ms
             m2 == mario_set_forward_vel([m1 EXCEPT !.vel.y = F(-50)], 0)
             m3 == [m2 EXCEPT !.actionTimer = @ + 1]
         IN  NoStep(IF m3.actionTimer >= env.loopEnd + 4 THEN [m3 EXCEPT !.actionState = 1]
                    ELSE m3,
                    FALSE)
    ELSE IF sr = "call"
    THEN [m |-> [ms EXCEPT !.vel.y = F(-50)], step |-> TRUE, stepArg |-> {}, ret |-> FALSE]
    ELSE CASE sr = AIR_STEP_LANDED ->
                  IF should_get_stuck_in_ground(ms, env)
                  THEN NoStep(set_mario_action(ms, "ACT_BUTT_STUCK_IN_GROUND", 0), FALSE)
                  ELSE LET r == check_fall_damage(ms, "ACT_HARD_BACKWARD_GROUND_KB",
                                                  env.slippery)
                       IN  NoStep(IF ~r.ret
                                  THEN set_mario_action(r.m, "ACT_GROUND_POUND_LAND", 0)
                                  ELSE r.m,
                                  FALSE)
           [] sr = AIR_STEP_HIT_WALL ->
                  IF env.fixBonks THEN NoStep(ms, FALSE)
                  ELSE LET m1 == mario_set_forward_vel(ms, F(-16))
                           m2 == IF m1.vel.y > 0 THEN [m1 EXCEPT !.vel.y = 0] ELSE m1
                       IN  NoStep(set_mario_action(m2, "ACT_BACKWARD_AIR_KB", 0), FALSE)
           [] OTHER -> NoStep(ms, FALSE)

act_ground_pound(ms, sr, env) ==
    IF ms.actionState = 0
    THEN LET yOffset == F(20 - 2 * ms.actionTimer)
             m1 == IF ms.actionTimer < 10 /\ ms.pos.y + yOffset + F(160) < ms.ceilHeight
                   THEN [ms EXCEPT !.pos.y = @ + yOffset, !.peakHeight = ms.pos.y + yOffset]
                   ELSE ms
             m2 == mario_set_forward_vel([m1 EXCEPT !.vel.y = F(-50)], 0)
             m3 == [m2 EXCEPT !.actionTimer = @ + 1]
         IN  NoStep(IF m3.actionTimer >= env.loopEnd + 4 THEN [m3 EXCEPT !.actionState = 1]
                    ELSE m3,
                    FALSE)
    ELSE IF sr = "call"
    THEN [m |-> ms, step |-> TRUE, stepArg |-> {}, ret |-> FALSE]
    ELSE CASE sr = AIR_STEP_LANDED ->
                  IF should_get_stuck_in_ground(ms, env)
                  THEN NoStep(set_mario_action(ms, "ACT_BUTT_STUCK_IN_GROUND", 0), FALSE)
                  ELSE LET r == check_fall_damage(ms, "ACT_HARD_BACKWARD_GROUND_KB",
                                                  env.slippery)
                       IN  NoStep(IF ~r.ret
                                  THEN set_mario_action(r.m, "ACT_GROUND_POUND_LAND", 0)
                                  ELSE r.m,
                                  FALSE)
           [] sr = AIR_STEP_HIT_WALL ->
                  IF env.fixBonks THEN NoStep(ms, FALSE)
                  ELSE LET m1 == mario_set_forward_vel(ms, F(-16))
                           m2 == IF m1.vel.y > 0 THEN [m1 EXCEPT !.vel.y = 0] ELSE m1
                       IN  NoStep(set_mario_action(m2, "ACT_BACKWARD_AIR_KB", 0), FALSE)
           [] OTHER -> NoStep(ms, FALSE)

\* mutant of act_air_hit_wall: the handler returns FALSE where it plays the
\* animation
act_air_hit_wall_ReturnsFalse(ms, sr, env) ==
    LET m1 == [ms EXCEPT !.heldObj = FALSE, !.actionTimer = @ + 1]
        m2 == [m1 EXCEPT !.wallKickTimer = 5, !.vel.y = IF @ > 0 THEN 0 ELSE @]
    IN  IF m1.actionTimer <= 2
        THEN IF "INPUT_A_PRESSED" \in ms.input
             THEN NoStep(set_mario_action([m1 EXCEPT !.vel.y = F(52),
                                                     !.faceAngle.yaw = S16(@ + 32768)],
                                          "ACT_WALL_KICK_AIR", 0),
                         TRUE)
             ELSE NoStep(m1, FALSE)
        ELSE IF m1.forwardVel >= F(38)
        THEN NoStep(set_mario_action(m2, "ACT_BACKWARD_AIR_KB", 0), TRUE)
        ELSE NoStep(set_mario_action(IF m2.forwardVel > F(8)
                                     THEN mario_set_forward_vel(m2, F(-8)) ELSE m2,
                                     "ACT_SOFT_BONK", 0),
                    TRUE)

\* act_air_hit_wall makes no air step.  Where no branch returns, the value
\* the caller receives is the result of the set_character_animation call the
\* function ends with: env.animResult says whether that value is non-zero.
act_air_hit_wall(ms, sr, env) ==
    LET m1 == [ms EXCEPT !.heldObj = FALSE, !.actionTimer = @ + 1]
        m2 == [m1 EXCEPT !.wallKickTimer = 5, !.vel.y = IF @ > 0 THEN 0 ELSE @]
    IN  IF m1.actionTimer <= 2
        THEN IF "INPUT_A_PRESSED" \in ms.input
             THEN NoStep(set_mario_action([m1 EXCEPT !.vel.y = F(52),
                                                     !.faceAngle.yaw = S16(@ + 32768)],
                                          "ACT_WALL_KICK_AIR", 0),
                         TRUE)
             ELSE NoStep(m1, env.animResult)
        ELSE IF m1.forwardVel >= F(38)
        THEN NoStep(set_mario_action(m2, "ACT_BACKWARD_AIR_KB", 0), TRUE)
        ELSE NoStep(set_mario_action(IF m2.forwardVel > F(8)
                                     THEN mario_set_forward_vel(m2, F(-8)) ELSE m2,
                                     "ACT_SOFT_BONK", 0),
                    TRUE)

\* act_shot_from_cannon: the switch on the step result, then the wing-cap
\* test and the loss of forward speed, which every result reaches
act_shot_from_cannon(ms, sr, env) ==
    IF sr = "call"
    THEN [m |-> mario_set_forward_vel(ms, ms.forwardVel), step |-> TRUE, stepArg |-> {},
          ret |-> FALSE]
    ELSE LET m1 == CASE sr = AIR_STEP_NONE ->
                            [ms EXCEPT !.faceAngle.pitch = atan2s(ms.forwardVel, ms.vel.y)]
                     [] sr = AIR_STEP_LANDED ->
                            [set_mario_action(ms, "ACT_DIVE_SLIDE", 0) EXCEPT
                                !.faceAngle.pitch = 0]
                     [] sr = AIR_STEP_HIT_WALL ->
                            set_mario_action(
                                [mario_set_forward_vel(ms, F(-16)) EXCEPT
                                    !.faceAngle.pitch = 0,
                                    !.vel.y = IF @ > 0 THEN 0 ELSE @],
                                "ACT_BACKWARD_AIR_KB", 0)
                     [] sr = AIR_STEP_HIT_LAVA_WALL -> lava_boost_on_wall(ms, env).m
                     [] OTHER -> ms
             m2 == IF "MARIO_WING_CAP" \in m1.flags /\ m1.vel.y < 0
                   THEN set_mario_action(m1, "ACT_FLYING", 0) ELSE m1
             m3 == [m2 EXCEPT !.forwardVel = @ - F(5) \div 100]
         IN  NoStep(IF m3.forwardVel < F(10) THEN mario_set_forward_vel(m3, F(10)) ELSE m3,
                    FALSE)

\* mutant of act_burning_jump: the health of a remote actor is clamped like
\* the local player's
act_burning_jump_ClampsAlike(ms, sr, env) ==
    IF sr = "call"
    THEN [m |-> mario_set_forward_vel(ms, ms.forwardVel), step |-> TRUE, stepArg |-> {},
          ret |-> FALSE]
    ELSE LET m1 == IF sr = AIR_STEP_LANDED THEN set_mario_action(ms, "ACT_BURNING_GROUND", 0)
                   ELSE ms
             h  == S16(m1.health - 10)
         IN  NoStep([m1 EXCEPT !.oMarioBurnTimer = @ + 3,
                               !.health = IF h < 256
                                          THEN (IF ms.playerIndex # 0 THEN 255 ELSE 255)
                                          ELSE h],
                    FALSE)

\* act_burning_jump; the actor is the local player when m->playerIndex is 0
act_burning_jump(ms, sr, env) ==
    IF sr = "call"
    THEN [m |-> mario_set_forward_vel(ms, ms.forwardVel), step |-> TRUE, stepArg |-> {},
          ret |-> FALSE]
    ELSE LET m1 == IF sr = AIR_STEP_LANDED THEN set_mario_action(ms, "ACT_BURNING_GROUND", 0)
                   ELSE ms
             h  == S16(m1.health - 10)
         IN  NoStep([m1 EXCEPT !.oMarioBurnTimer = @ + 3,
                               !.health = IF h < 256
                                          THEN (IF ms.playerIndex # 0 THEN 256 ELSE 255)
                                          ELSE h],
                    FALSE)

act_burning_fall(ms, sr, env) ==
    IF sr = "call"
    THEN [m |-> mario_set_forward_vel(ms, ms.forwardVel), step |-> TRUE, stepArg |-> {},
          ret |-> FALSE]
    ELSE LET m1 == IF sr = AIR_STEP_LANDED THEN set_mario_action(ms, "ACT_BURNING_GROUND", 0)
                   ELSE ms
             h  == S16(m1.health - 10)
         IN  NoStep([m1 EXCEPT !.oMarioBurnTimer = @ + 3,
                               !.health = IF h < 256
                                          THEN (IF ms.playerIndex # 0 THEN 256 ELSE 255)
                                          ELSE h],
                    FALSE)

\* act_lava_boost; for the local player out of health the hook may refuse
\* the death, and the actor is bubbled (mario_set_bubbled, mario.c) or warped
act_lava_boost(ms, sr, env) ==
    IF sr = "call"
    THEN LET m1 == IF "INPUT_NONZERO_ANALOG" \notin ms.input
                   THEN [ms EXCEPT !.forwardVel =
                            approach_f32(@, 0, F(35) \div 100, F(35) \div 100)]
                   ELSE ms
         IN  [m |-> update_lava_boost_or_twirling(m1), step |-> TRUE, stepArg |-> {},
              ret |-> FALSE]
    ELSE LET m1 == CASE sr = AIR_STEP_LANDED ->
                            IF ms.floor.type = "SURFACE_BURNING"
                            THEN [(IF "MARIO_METAL_CAP" \notin ms.flags
                                   THEN FallHurt(ms, 12, 18) ELSE ms) EXCEPT
                                     !.actionState = 0, !.vel.y = F(84)]
                            ELSE IF ms.actionState < 2 /\ ms.vel.y < 0
                            THEN [mario_set_forward_vel(
                                      [ms EXCEPT !.vel.y = FDiv(-ms.vel.y * 4, 10)],
                                      FDiv(ms.forwardVel, 2)) EXCEPT !.actionState = @ + 1]
                            ELSE set_mario_action(ms, "ACT_LAVA_BOOST_LAND", 0)
                     [] sr = AIR_STEP_HIT_WALL -> mario_bonk_reflection(ms, FALSE)
                     [] sr = AIR_STEP_HIT_LAVA_WALL -> lava_boost_on_wall(ms, env).m
                     [] OTHER -> ms
         IN  NoStep(IF m1.health >= 256 THEN m1
                    ELSE IF ms.playerIndex # 0 THEN [m1 EXCEPT !.health = 256]
                    ELSE IF ~env.allowDeath THEN m1
                    ELSE IF env.canBubble
                    THEN [m1 EXCEPT !.health = 255, !.action = "ACT_BUBBLED"]
                    ELSE [m1 EXCEPT !.action = "WARP_OP_DEATH"],
                    FALSE)

-----------------------------------------------------------------------------
(* The airborne tick (mario_actions_airborne.c) *)

\* mutant of check_common_airborne_cancels: a vetoed water entry ends the checks
check_common_airborne_cancels_VetoEnds(ms, allowWater, allowWind) ==
    IF ms.pos.y < ms.waterLevel - F(100)
    THEN (IF allowWater THEN [m |-> set_water_plunge_action(ms), ret |-> TRUE]
          ELSE [m |-> ms, ret |-> FALSE])
    ELSE IF "INPUT_SQUISHED" \in ms.input
    THEN [m |-> drop_and_set_mario_action(ms, "ACT_SQUISHED", 0), ret |-> TRUE]
    ELSE IF /\ ms.floor # NoSurface
            /\ ms.floor.type = "SURFACE_VERTICAL_WIND"
            /\ HasFlag(ms.action, "ACT_FLAG_ALLOW_VERTICAL_WIND_ACTION")
            /\ allowWind
    THEN [m |-> drop_and_set_mario_action(ms, "ACT_VERTICAL_WIND", 0), ret |-> TRUE]
    ELSE [m |-> [ms EXCEPT !.quicksandDepth = 0], ret |-> FALSE]

\* allowWater and allowWind are what HOOK_ALLOW_FORCE_WATER_ACTION and
\* HOOK_ALLOW_HAZARD_SURFACE answer when they are asked
check_common_airborne_cancels(ms, allowWater, allowWind) ==
    IF ms.pos.y < ms.waterLevel - F(100) /\ allowWater
    THEN [m |-> set_water_plunge_action(ms), ret |-> TRUE]
    ELSE IF "INPUT_SQUISHED" \in ms.input
    THEN [m |-> drop_and_set_mario_action(ms, "ACT_SQUISHED", 0), ret |-> TRUE]
    ELSE IF /\ ms.floor # NoSurface
            /\ ms.floor.type = "SURFACE_VERTICAL_WIND"
            /\ HasFlag(ms.action, "ACT_FLAG_ALLOW_VERTICAL_WIND_ACTION")
            /\ allowWind
    THEN [m |-> drop_and_set_mario_action(ms, "ACT_VERTICAL_WIND", 0), ret |-> TRUE]
    ELSE [m |-> [ms EXCEPT !.quicksandDepth = 0], ret |-> FALSE]

\* mutant of UnimplementedAction: the action is left as it is
UnimplementedAction_KeepsAction(ms) == NoStep(ms, FALSE)

\* the default case of the dispatch: an action with no airborne handler
UnimplementedAction(ms) == NoStep(set_mario_action(ms, "ACT_FREEFALL", 0), FALSE)

\* the name of the handler the switch of mario_execute_airborne_action
\* selects for an action; "default" for the default case
HandlerOf(action) ==
    CASE action = "ACT_JUMP" -> "act_jump"
      [] action = "ACT_FREEFALL" -> "act_freefall"
      [] action = "ACT_AIR_THROW" -> "act_air_throw"
      [] OTHER -> "default"

\* the switch, up to the handler's call of perform_air_step
Dispatch(ms, env) ==
    CASE HandlerOf(ms.action) = "act_jump" -> act_jump(ms, env)
      [] HandlerOf(ms.action) = "act_freefall" -> act_freefall(ms, env)
      [] HandlerOf(ms.action) = "act_air_throw" -> act_air_throw(ms, env)
      [] OTHER -> UnimplementedAction(ms)

\* the handler, from the return of perform_air_step on
DispatchResume(ms, handler, sr, env) ==
    CASE handler = "act_jump" -> common_air_action_step(ms, "ACT_JUMP_LAND", sr, env)
      [] handler = "act_freefall" -> common_air_action_step(ms, "ACT_FREEFALL_LAND", sr, env)
      [] handler = "act_air_throw" -> act_air_throw_switch(ms, sr, env)
      [] OTHER -> ms

\* no tick yet
TickNone ==
    [n |-> 0, start |-> MarioInit, allowWater |-> TRUE, allowWind |-> TRUE,
     hook |-> [handled |-> FALSE, cancel |-> FALSE], cancelled |-> FALSE,
     handler |-> "none", prev |-> "none"]

-----------------------------------------------------------------------------
(* What the surface query service can answer in one quarter-step *)

MaxWalls == 2

WFront == Surf("SURFACE_DEFAULT", 0, 0, -1000)
WSide  == Surf("SURFACE_DEFAULT", 1000, 0, 0)
WLava  == Surf("SURFACE_BURNING", 1000, 0, 0)

FloorFlat  == Surf("SURFACE_DEFAULT", 0, 1000, 0)
FloorSteep == Surf("SURFACE_DEFAULT", 600, 800, 0)
FloorWind  == Surf("SURFACE_VERTICAL_WIND", 0, 1000, 0)


NoLedge == [floor |-> NoSurface, height |-> F(-11000)]
LedgeSet == {NoLedge, [floor |-> FloorFlat, height |-> F(105)],
             [floor |-> FloorFlat, height |-> F(106)],
             [floor |-> FloorSteep, height |-> F(106)]}

QBase ==
    [upperWalls |-> <<>>, lowerWalls |-> <<>>, ledges |-> <<>>, push |-> V3(0, 0, 0),
     floor |-> FloorFlat, floorHeight |-> 0, ceilHeight |-> F(20000),
     waterLevel |-> F(-11000), allowWater |-> TRUE,
     bouncy |-> "BOUNCY_LEVEL_BOUNDS_OFF",
     fixCollisionBugs |-> FALSE, fixFalseLedgeGrab |-> FALSE]


\* floors and ceilings, with or without a wall moving the target aside
\* (QFloor); out of bounds (QOut); water above the floor (QWater); walls found
\* by the upper probe (QUpper); walls found by the lower probe only, and the
\* floor behind each (QLower); a floor below the recorded one under a low
\* ceiling (QLow)
QuerySet ==
    LET WBack == Surf("SURFACE_DEFAULT", -1000, 0, 0)
        WDiag == Surf("SURFACE_DEFAULT", -707, 0, -707)
        WallLists == UNION {[1..n -> {WFront, WSide, WLava, WBack, WDiag}] : n \in 1..MaxWalls}
        LowerLists == UNION {[1..n -> {WFront, WLava, WBack}] : n \in 1..MaxWalls}
        PushSet == {V3(F(1), 0, 0), V3(F(-1), 0, 0)}
        QFloor ==
            {[QBase EXCEPT !.floor = fl[1], !.floorHeight = fl[2], !.ceilHeight = c,
                           !.upperWalls = w[1], !.push = w[2]] :
                fl \in {<<FloorFlat, 0>>, <<FloorFlat, F(3)>>, <<FloorWind, 0>>},
                c \in {F(160), F(161), F(20000)},
                w \in {<<(<<>>), V3(0, 0, 0)>>, <<(<<WSide>>), V3(F(1), 0, 0)>>}}
        QOut ==
            {[QBase EXCEPT !.floor = NoSurface, !.floorHeight = F(-11000), !.bouncy = b] :
                b \in {"BOUNCY_LEVEL_BOUNDS_OFF", "BOUNCY_LEVEL_BOUNDS_ON",
                       "BOUNCY_LEVEL_BOUNDS_ON_CAP"}}
        QWater ==
            {[QBase EXCEPT !.waterLevel = F(4), !.allowWater = a] : a \in BOOLEAN}
        QUpper ==
            {[QBase EXCEPT !.upperWalls = u, !.lowerWalls = u,
                           !.ledges = [k \in 1..Len(u) |-> NoLedge],
                           !.push = p, !.fixCollisionBugs = f] :
                u \in WallLists, p \in PushSet, f \in BOOLEAN}
        QLower ==
            {[QBase EXCEPT !.lowerWalls = l[1], !.ledges = l[2], !.push = p,
                           !.fixCollisionBugs = f[1], !.fixFalseLedgeGrab = f[2]] :
                l \in UNION {{w} \X [1..Len(w) -> LedgeSet] : w \in LowerLists},
                p \in PushSet,
                f \in {<<FALSE, FALSE>>, <<TRUE, FALSE>>, <<TRUE, TRUE>>}}
        QLow ==
            {[QBase EXCEPT !.floorHeight = F(-20), !.ceilHeight = F(100)]}
    IN  QFloor \cup QOut \cup QWater \cup QUpper \cup QLower \cup QLow

-----------------------------------------------------------------------------
(* perform_air_step (mario_step.c), one action per step of its body *)

StopResults == {AIR_STEP_LANDED, AIR_STEP_GRABBED_LEDGE, AIR_STEP_GRABBED_CEILING,
                AIR_STEP_HIT_LAVA_WALL}

\* mutant of KeepResult: stepResult is overwritten by every quarter-step
KeepResult_Overwrite(old, qsr) == qsr

\* what the loop keeps as stepResult after a quarter-step
KeepResult(old, qsr) == IF qsr # AIR_STEP_NONE THEN qsr ELSE old

\* mutant of LoopContinues: a fifth quarter-step is allowed
LoopContinues_FiveSteps(n, qsr) == qsr \notin StopResults /\ n <= 4

\* whether the loop goes on to another quarter-step
LoopContinues(n, qsr) == qsr \notin StopResults /\ n < 4

\* entry: HOOK_BEFORE_PHYS_STEP may return a result of its own; else the loop starts
AirStepEnter(sa, hook) ==
    /\ pc = "call"
    /\ stepArg' = sa
    /\ pre' = m
    /\ trace' = <<>>
    /\ i' = 0
    /\ quarterStepResult' = AIR_STEP_NONE
    /\ IF hook.override
       THEN /\ pc' = "ret"
            /\ ret' = hook.returnValue
            /\ m' = m
            /\ stepResult' = AIR_STEP_NONE
       ELSE /\ pc' = "loop"
            /\ ret' = AIR_STEP_NONE
            /\ m' = [m EXCEPT !.wall = NoSurface]
            /\ stepResult' = AIR_STEP_NONE
    /\ UNCHANGED <<q, intendedPos, calls, tick, cancel, gMarioStates, originOffset>>

\* one pass of the quarter-step loop
AirQuarterStep(qq) ==
    /\ pc = "loop"
    /\ LET ip == V3(m.pos.x + Div4(m.vel.x), m.pos.y + Div4(m.vel.y), m.pos.z + Div4(m.vel.z))
           r  == perform_air_quarter_step(m, ip, stepArg, qq)
       IN  /\ intendedPos' = ip
           /\ q' = qq
           /\ pre' = m
           /\ m' = r.m
           /\ quarterStepResult' = r.result
           /\ stepResult' = KeepResult(stepResult, r.result)
           /\ trace' = Append(trace, r.result)
           /\ i' = i + 1
           /\ pc' = IF LoopContinues(i + 1, r.result) THEN "loop" ELSE "finish"
    /\ originOffset' = PseudoFloorOriginOffset(m, qq, originOffset)
    /\ UNCHANGED <<stepArg, ret, calls, tick, cancel, gMarioStates>>

\* mutant of AirStepFinish: gravity is applied whatever the action
AirStepFinish_GravityAlways(gh, allowWind) ==
    /\ pc = "finish"
    /\ LET m1 == IF m.vel.y >= 0 THEN [m EXCEPT !.peakHeight = m.pos.y] ELSE m
       IN  /\ pre' = m1
           /\ m' = apply_vertical_wind(apply_gravity(m1, gh), allowWind)
    /\ ret' = stepResult
    /\ pc' = "ret"
    /\ calls' = calls + 1
    /\ UNCHANGED <<stepArg, i, stepResult, quarterStepResult, q, intendedPos, trace, tick, cancel,
                   gMarioStates, originOffset>>

\* after the loop: peak height, gravity, vertical wind, return
AirStepFinish(gh, allowWind) ==
    /\ pc = "finish"
    /\ LET m1 == IF m.vel.y >= 0 THEN [m EXCEPT !.peakHeight = m.pos.y] ELSE m
           m2 == IF m1.action # "ACT_FLYING" /\ m1.action # "ACT_BUBBLED"
                 THEN apply_gravity(m1, gh) ELSE m1
       IN  /\ pre' = m1
           /\ m' = apply_vertical_wind(m2, allowWind)
    /\ ret' = stepResult
    /\ pc' = "ret"
    /\ calls' = calls + 1
    /\ UNCHANGED <<stepArg, i, stepResult, quarterStepResult, q, intendedPos, trace, tick, cancel,
                   gMarioStates, originOffset>>

PhysStepHookSet ==
    {[override |-> FALSE, returnValue |-> AIR_STEP_NONE],
     [override |-> TRUE, returnValue |-> AIR_STEP_NONE],
     [override |-> TRUE, returnValue |-> AIR_STEP_LANDED]}

GravityHookSet ==
    {[handled |-> FALSE, dv |-> 0], [handled |-> TRUE, dv |-> 0],
     [handled |-> TRUE, dv |-> F(-1)]}

StepArgSet == SUBSET {AIR_STEP_CHECK_LEDGE_GRAB, AIR_STEP_CHECK_HANG}

-----------------------------------------------------------------------------
(* Specification of one air quarter-step: perform_air_step, in some         *)
(* airborne state, calls perform_air_quarter_step once                      *)

CeilHang == Surf("SURFACE_HANGABLE", 0, -1000, 0)

QStepInitStates ==
    {[MarioInit EXCEPT !.action = a, !.vel = V3(vx, vy, 0), !.forwardVel = vx,
                       !.faceAngle.yaw = 16384, !.ceil = c] :
        a \in {"ACT_JUMP", "ACT_RIDING_SHELL_JUMP"},
        vx \in {0, F(4)},
        vy \in {F(-40), F(-10), 0, F(8)},
        c \in {NoSurface, CeilHang}}

InitCommon ==
    /\ i = 0
    /\ stepResult = AIR_STEP_NONE
    /\ quarterStepResult = AIR_STEP_NONE
    /\ q = QBase
    /\ intendedPos = V3(0, 0, 0)
    /\ pre = m
    /\ trace = <<>>
    /\ ret = AIR_STEP_NONE
    /\ calls = 0
    /\ tick = TickNone
    /\ cancel = FALSE
    /\ gMarioStates = <<>>
    /\ originOffset = 0

InitQStep ==
    /\ m \in QStepInitStates
    /\ stepArg \in StepArgSet
    /\ pc = "qcall"
    /\ InitCommon

\* the call perform_air_quarter_step(m, intendedPos, stepArg) of the loop body
QStepCall(qq) ==
    /\ pc = "qcall"
    /\ LET ip == V3(m.pos.x + Div4(m.vel.x), m.pos.y + Div4(m.vel.y), m.pos.z + Div4(m.vel.z))
           r  == perform_air_quarter_step(m, ip, stepArg, qq)
       IN  /\ intendedPos' = ip
           /\ q' = qq
           /\ pre' = m
           /\ m' = r.m
           /\ quarterStepResult' = r.result
           /\ ret' = r.result
    /\ pc' = "qret"
    /\ calls' = calls + 1
    /\ originOffset' = PseudoFloorOriginOffset(m, qq, originOffset)
    /\ UNCHANGED <<stepArg, i, stepResult, trace, tick, cancel, gMarioStates>>

NextQStep == \E qq \in QuerySet : QStepCall(qq)

SpecQStep == InitQStep /\ [][NextQStep]_vars

-----------------------------------------------------------------------------
(* Specification of the air stepper: a caller in some airborne state calls  *)
(* perform_air_step                                                         *)

\* the answers the quarter-steps of a whole step draw from: one or two of
\* each kind of QuerySet
QLoopSet ==
    {QBase,
     [QBase EXCEPT !.floorHeight = F(3)],
     [QBase EXCEPT !.floorHeight = F(3), !.ceilHeight = F(163)],
     [QBase EXCEPT !.ceilHeight = F(160)],
     [QBase EXCEPT !.floor = NoSurface, !.floorHeight = F(-11000)],
     [QBase EXCEPT !.upperWalls = <<WFront>>, !.push = V3(0, 0, F(-1))],
     [QBase EXCEPT !.upperWalls = <<WSide>>, !.push = V3(F(1), 0, 0)],
     [QBase EXCEPT !.upperWalls = <<WLava>>, !.push = V3(F(1), 0, 0)],
     [QBase EXCEPT !.lowerWalls = <<WFront>>, !.push = V3(0, 0, F(-1)),
                   !.ledges = <<[floor |-> FloorFlat, height |-> F(106)]>>]}

StepInitStates ==
    {[MarioInit EXCEPT !.vel = V3(0, vy, F(4)), !.forwardVel = F(4), !.ceil = c] :
        vy \in {F(-10), 0, F(8)},
        c \in {NoSurface, CeilHang}}
    \cup
    {[MarioInit EXCEPT !.vel = V3(0, vy, F(4)), !.forwardVel = F(4), !.action = a] :
        vy \in {F(-10), F(8)},
        a \in {"ACT_FLYING", "ACT_BUBBLED"}}

InitStep ==
    /\ m \in StepInitStates
    /\ stepArg = {}
    /\ pc = "call"
    /\ InitCommon

StepEnter == \E sa \in StepArgSet, hook \in PhysStepHookSet : AirStepEnter(sa, hook)

StepQuarter == \E qq \in QLoopSet : AirQuarterStep(qq)

StepFinish == \E gh \in GravityHookSet, allowWind \in BOOLEAN : AirStepFinish(gh, allowWind)

NextStep == StepEnter \/ StepQuarter \/ StepFinish

SpecStep == InitStep /\ [][NextStep]_vars

-----------------------------------------------------------------------------
(* Specification of gravity: apply_gravity is applied tick after tick to an *)
(* actor in some action, with the input of the tick                         *)

\* how far below zero a gravity hook may take the vertical velocity
MaxHookFall == 80

GravityInitStates ==
    {[MarioInit EXCEPT !.action = a, !.vel.y = vy, !.flags = @ \cup fl] :
        a \in {"ACT_JUMP", "ACT_FREEFALL", "ACT_BACKWARD_AIR_KB", "ACT_METAL_WATER_FALLING"},
        vy \in {F(60), F(21), F(20), F(-34), F(-73)},
        fl \in SUBSET {"MARIO_UNKNOWN_08", "MARIO_WING_CAP"}}
    \cup
    {[MarioInit EXCEPT !.action = a, !.vel.y = vy, !.flags = @ \cup fl] :
        a \in {"ACT_SHOT_FROM_CANNON", "ACT_LONG_JUMP", "ACT_LAVA_BOOST"},
        vy \in {F(21), F(-63), F(-73)},
        fl \in {{}, {"MARIO_UNKNOWN_08", "MARIO_WING_CAP"}}}
    \cup
    {[MarioInit EXCEPT !.action = "ACT_TWIRLING", !.vel.y = vy, !.angleVel.yaw = av,
                       !.flags = @ \cup fl] :
        vy \in {F(20), F(-8), F(-73)}, av \in {0, 4096, 8192},
        fl \in {{}, {"MARIO_WING_CAP"}}}
    \cup
    {[MarioInit EXCEPT !.action = "ACT_GETTING_BLOWN", !.vel.y = vy, !.unkC4 = g] :
        vy \in {F(20), F(-73)}, g \in {F(4) \div 10, F(2)}}

InitGravity ==
    /\ m \in GravityInitStates
    /\ stepArg = {}
    /\ pc = "gcall"
    /\ InitCommon

\* one call apply_gravity(m); inp is the input of the tick, gh the answer of
\* the ACTION_HOOK_GRAVITY hook
GravityCall(inp, gh) ==
    /\ pc \in {"gcall", "gret"}
    /\ gh.handled => m.vel.y + gh.dv >= F(-MaxHookFall)
    /\ LET m1 == [m EXCEPT !.input = inp]
       IN  /\ pre' = m1
           /\ m' = apply_gravity(m1, gh)
    /\ q' = gh
    /\ pc' = "gret"
    /\ UNCHANGED <<stepArg, i, stepResult, quarterStepResult, intendedPos, trace, ret, calls, tick, cancel,
                   gMarioStates, originOffset>>

NextGravity ==
    \E inp \in {{}, {"INPUT_A_DOWN"}}, gh \in GravityHookSet : GravityCall(inp, gh)

SpecGravity == InitGravity /\ [][NextGravity]_vars

\* the wing-cap float over consecutive ticks: a falling actor with the wing
\* cap keeps the jump button held and no hook replaces gravity
MaxFloatFall == 80

InitFloat ==
    /\ m \in {[MarioInit EXCEPT !.action = a, !.vel.y = -vy, !.flags = @ \cup {"MARIO_WING_CAP"}] :
                a \in {"ACT_JUMP", "ACT_FREEFALL"}, vy \in 1..F(MaxFloatFall)}
    /\ stepArg = {}
    /\ pc = "gcall"
    /\ InitCommon

NextFloat ==
    /\ GravityRuleOf([m EXCEPT !.input = {"INPUT_A_DOWN"}], [handled |-> FALSE, dv |-> 0]) = "wing_cap"
    /\ GravityCall({"INPUT_A_DOWN"}, [handled |-> FALSE, dv |-> 0])

SpecFloat == InitFloat /\ [][NextFloat]_vars /\ WF_vars(NextFloat)

-----------------------------------------------------------------------------
(* Specification of quicksand: a grounded actor walks over floors of any    *)
(* type and mario_update_quicksand is called tick after tick, until the     *)
(* actor dies in the sand.  The sinking speed is fast, or on shallow        *)
(* quicksand also slow or 0.                                                *)

SandInitStates ==
    {[MarioInit EXCEPT !.action = a, !.pos.y = 0, !.peakHeight = 0, !.hitboxHeight = h,
                       !.heldObj = held] :
        a \in {"ACT_WALKING", "ACT_RIDING_SHELL_GROUND"},
        h \in {F(160), F(100)},
        held \in BOOLEAN}

InitSand ==
    /\ m \in SandInitStates
    /\ stepArg = {}
    /\ pc = "scall"
    /\ InitCommon

\* the floor under the actor becomes one of type ft (NULL for "NULL"), then
\* mario_update_quicksand(m, sinkingSpeed) is called
SandCall(ft, sinkingSpeed, allow, menu) ==
    /\ pc \in {"scall", "sret"}
    /\ m.action # "ACT_QUICKSAND_DEATH"
    /\ LET m1 == [m EXCEPT !.floor = IF ft = "NULL" THEN NoSurface ELSE Surf(ft, 0, 1000, 0)]
           r  == mario_update_quicksand(m1, sinkingSpeed, allow, menu)
       IN  /\ pre' = m1
           /\ m' = r.m
           /\ ret' = r.ret
    /\ q' = [sinkingSpeed |-> sinkingSpeed, allow |-> allow, menu |-> menu]
    /\ pc' = "sret"
    /\ UNCHANGED <<stepArg, i, stepResult, quarterStepResult, intendedPos, trace, calls, tick, cancel,
                   gMarioStates, originOffset>>

\* the floor under the actor becomes one of type ft with the given force,
\* then mario_update_moving_sand(m) is called
MovingSandCall(ft, force, outside) ==
    /\ pc = "scall"
    /\ LET m1 == [m EXCEPT !.floor = IF ft = "NULL" THEN NoSurface
                                     ELSE [Surf(ft, 0, 1000, 0) EXCEPT !.force = force]]
           r  == mario_update_moving_sand(m1, outside)
       IN  /\ pre' = m1
           /\ m' = r.m
           /\ ret' = r.ret
           /\ q' = [force |-> force, index |-> r.index, pushAngle |-> r.pushAngle,
                    pushSpeed |-> r.pushSpeed]
    /\ pc' = "mret"
    /\ UNCHANGED <<stepArg, i, stepResult, quarterStepResult, intendedPos, trace, calls, tick, cancel,
                   gMarioStates, originOffset>>

NextSand ==
    \/ \E ft \in {"NULL", "SURFACE_DEFAULT", "SURFACE_QUICKSAND", "SURFACE_MOVING_QUICKSAND",
                   "SURFACE_DEEP_MOVING_QUICKSAND", "SURFACE_SHALLOW_MOVING_QUICKSAND",
                   "SURFACE_INSTANT_MOVING_QUICKSAND"},
          force \in {0, 64, 255, 256, 512 + 32, 768 + 128, 1023, 1024, 32767, -1, -32768},
          outside \in {F(-1), F(100)} :
             /\ (0 <= force /\ force < 1024) => outside = F(100)
             /\ MovingSandCall(ft, force, outside)
    \/ \E ft \in {"NULL", "SURFACE_DEFAULT", "SURFACE_SHALLOW_QUICKSAND",
                "SURFACE_SHALLOW_MOVING_QUICKSAND", "SURFACE_QUICKSAND",
                "SURFACE_MOVING_QUICKSAND", "SURFACE_DEEP_QUICKSAND",
                "SURFACE_DEEP_MOVING_QUICKSAND", "SURFACE_INSTANT_QUICKSAND",
                "SURFACE_INSTANT_MOVING_QUICKSAND"},
       sp \in {0, F(3), F(40), F(99), F(100)}, allow \in BOOLEAN,
       menu \in BOOLEAN :
          /\ sp < F(40) => ft = "SURFACE_SHALLOW_QUICKSAND" /\ allow /\ ~menu
          /\ SandCall(ft, sp, allow, menu)

SpecSand == InitSand /\ [][NextSand]_vars

-----------------------------------------------------------------------------
(* Specification of horizontal wind: an airborne actor over a wind floor,   *)
(* check_horizontal_wind called tick after tick. The wind blows along one   *)
(* axis or diagonal, forwards or backwards, and the slide velocity starts   *)
(* on that line, so that atan2s, sins and coss are exact.                   *)

InitWind ==
    /\ m \in {[MarioInit EXCEPT !.action = "ACT_FREEFALL", !.pos.y = F(12),
                                !.faceAngle.yaw = yaw,
                                !.floor = [Surf("SURFACE_HORIZONTAL_WIND", 0, 1000, 0)
                                              EXCEPT !.force = force],
                                !.slideVelX = Mul1000(s0, sins(force * 256)),
                                !.slideVelZ = Mul1000(s0, coss(force * 256))] :
                yaw \in {0, 8192, 16384},
                force \in {0, 32, 64},
                s0 \in {0, F(31), F(47), F(60)}}
    /\ stepArg = {}
    /\ pc = "wcall"
    /\ InitCommon

\* the floor under the actor is a wind floor blowing forwards or backwards
\* (force + 128) along the line, or a default floor, and
\* check_horizontal_wind(m) is called; allow is the hook's answer
WindCall(back, ft, allow) ==
    /\ pc \in {"wcall", "wret"}
    /\ LET m1 == [m EXCEPT !.floor.force = IF back THEN (@ + 128) % 256 ELSE @,
                           !.floor.type = ft]
           r  == check_horizontal_wind(m1, [allowHWind |-> allow])
       IN  /\ pre' = m1
           /\ m' = r.m
           /\ ret' = r.ret
    /\ q' = [allow |-> allow]
    /\ pc' = "wret"
    /\ UNCHANGED <<stepArg, i, stepResult, quarterStepResult, intendedPos, trace, calls, tick, cancel,
                   gMarioStates, originOffset>>

\* an actor moving forward at speed fv along its facing, the stick at rest or
\* pushed towards intendedYaw, calls update_air_with_turn(m) over a floor of
\* type ft; allow is the hook's answer
TurnCall(fv, inp, intendedYaw, ft, allow) ==
    /\ pc = "wcall"
    /\ LET m0 == mario_set_forward_vel(m, fv)
           m1 == [m0 EXCEPT !.input = inp, !.intendedYaw = intendedYaw, !.intendedMag = F(32),
                            !.floor.type = ft]
       IN  /\ pre' = m1
           /\ m' = update_air_with_turn(m1, [allowHWind |-> allow])
           /\ ret' = check_horizontal_wind(m1, [allowHWind |-> allow]).ret
    /\ q' = [allow |-> allow]
    /\ pc' = "tret"
    /\ UNCHANGED <<stepArg, i, stepResult, quarterStepResult, intendedPos, trace, calls, tick, cancel,
                   gMarioStates, originOffset>>

\* calls of update_flying followed in one run
MaxFlyingCalls == 3

\* a flying actor calls update_flying(m) tick after tick, the stick at
\* (stickX, stickY); at the first call it flies at speed fv with pitch p
FlyingCall(fv, p, stickX, stickY, conv) ==
    /\ pc \in {"wcall", "fret"}
    /\ calls < MaxFlyingCalls
    /\ pc = "wcall" => m.slideVelX = 0 /\ m.slideVelZ = 0 /\ m.floor.force = 0
    /\ pc = "fret" => fv = m.forwardVel /\ p = m.faceAngle.pitch
    /\ LET m1 == [m EXCEPT !.action = "ACT_FLYING", !.forwardVel = fv, !.faceAngle.pitch = p]
       IN  /\ pre' = m1
           /\ m' = update_flying(m1, stickX, stickY, conv)
    /\ q' = [stickX |-> stickX, stickY |-> stickY]
    /\ pc' = "fret"
    /\ calls' = calls + 1
    /\ UNCHANGED <<stepArg, i, stepResult, quarterStepResult, intendedPos, trace, ret, tick, cancel,
                   gMarioStates, originOffset>>

NextWind ==
    \/ \E back \in BOOLEAN, ft \in {"SURFACE_HORIZONTAL_WIND", "SURFACE_DEFAULT"},
          allow \in BOOLEAN : WindCall(back, ft, allow)
    \/ \E fv \in {0, F(-20), F(20), F(40)},
          inp \in {{}, {"INPUT_NONZERO_ANALOG"}},
          intendedYaw \in {0, 8192, -16384},
          ft \in {"SURFACE_HORIZONTAL_WIND", "SURFACE_DEFAULT"},
          allow \in BOOLEAN : TurnCall(fv, inp, intendedYaw, ft, allow)
    \/ \E fv \in {F(-5), F(3), F(10), F(40), F(6000)} \cup {m.forwardVel},
          p \in {-10922, 0, 10922, 28672} \cup {m.faceAngle.pitch},
          stick \in {<<0, 0>>, <<64, 0>>, <<0, 64>>, <<0, -64>>, <<-64, 64>>},
          conv \in {"wrap", "saturate"} : FlyingCall(fv, p, stick[1], stick[2], conv)

SpecWind == InitWind /\ [][NextWind]_vars

-----------------------------------------------------------------------------
(* Specification of the restricted update: an actor in lava boost or        *)
(* twirling calls update_lava_boost_or_twirling tick after tick, the stick  *)
(* at rest or pushed along the line the actor faces                         *)

InitLavaBoost ==
    /\ m \in {[MarioInit EXCEPT !.action = a, !.forwardVel = f, !.faceAngle.yaw = yaw] :
                a \in {"ACT_LAVA_BOOST", "ACT_TWIRLING"},
                f \in {F(-10), F(-1), 0, F(31), F(40)},
                yaw \in {0, 16384}}
    /\ stepArg = {}
    /\ pc = "lcall"
    /\ InitCommon

\* one call update_lava_boost_or_twirling(m) with the input of the tick
NextLavaBoost ==
    \E inp \in {{}, {"INPUT_NONZERO_ANALOG"}}, dYaw \in {0, -32768}, mag \in {F(16), F(32)} :
        /\ pc \in {"lcall", "lret"}
        /\ LET m1 == [m EXCEPT !.input = inp, !.intendedYaw = S16(m.faceAngle.yaw + dYaw),
                               !.intendedMag = mag]
           IN  /\ pre' = m1
               /\ m' = update_lava_boost_or_twirling(m1)
        /\ pc' = "lret"
        /\ UNCHANGED <<stepArg, i, stepResult, quarterStepResult, q, intendedPos, trace, ret, calls,
                       tick, cancel, gMarioStates, originOffset>>

SpecLavaBoost == InitLavaBoost /\ [][NextLavaBoost]_vars

-----------------------------------------------------------------------------
(* Specification of the long-fall sound: airborne ticks follow one another; *)
(* each has the actor in some airborne action at some height below some     *)
(* peak and calls play_far_fall_sound.  Between ticks, code outside the     *)
(* tick may clear the latch flag; calls is what charSoundWaaaooow, the      *)
(* number of times the sound was played, was when the latch was last clear. *)

MaxFalls == 3

InitFarFall ==
    /\ m = [MarioInit EXCEPT !.action = "ACT_FREEFALL"]
    /\ stepArg = {}
    /\ pc = "fcall"
    /\ InitCommon

\* the call play_far_fall_sound(m) of a tick that finds the actor in action
\* a, at height y, with peak height peak
FarFallTick(a, y, peak) ==
    /\ pc \in {"fcall", "fret"}
    /\ LET m1 == [m EXCEPT !.action = a, !.pos.y = y, !.peakHeight = peak]
       IN  /\ pre' = m1
           /\ m' = play_far_fall_sound(m1)
    /\ pc' = "fret"
    /\ UNCHANGED <<stepArg, i, stepResult, quarterStepResult, q, intendedPos, trace, ret,
                   calls, tick, cancel, gMarioStates, originOffset>>

\* code outside the tick clears the latch flag
FarFallLatchCleared ==
    /\ pc = "fret"
    /\ "MARIO_UNKNOWN_18" \in m.flags
    /\ m.charSoundWaaaooow < MaxFalls
    /\ m' = [m EXCEPT !.flags = @ \ {"MARIO_UNKNOWN_18"}]
    /\ calls' = m.charSoundWaaaooow
    /\ pre' = m'
    /\ UNCHANGED <<pc, stepArg, i, stepResult, quarterStepResult, q, intendedPos, trace, ret,
                   tick, cancel, gMarioStates, originOffset>>

NextFarFall ==
    \/ \E a \in {"ACT_FREEFALL", "ACT_JUMP", "ACT_BACKWARD_AIR_KB", "ACT_TWIRLING",
                 "ACT_FLYING"},
          y \in {0, F(50), F(51)}, peak \in {F(51), F(1200), F(1201)} :
            FarFallTick(a, y, peak)
    \/ FarFallLatchCleared

SpecFarFall == InitFarFall /\ [][NextFarFall]_vars

-----------------------------------------------------------------------------
(* Specification of two actors: in a tick the two slots of gMarioStates    *)
(* are updated one after the other, in either order; the update of a slot   *)
(* is one air quarter-step with the answers of the surface queries at that  *)
(* actor's place.  pre is the state the tick started in and q the answers   *)
(* for the two slots.                                                       *)

\* the slots updated in the given order; the quarter-step of one slot gives
\* its MarioState and the global afterwards
UpdateActors(order, slots, qs, off) ==
    LET ActorQuarterStep(ms, qq, o) ==
            LET ip == V3(ms.pos.x + Div4(ms.vel.x), ms.pos.y + Div4(ms.vel.y),
                         ms.pos.z + Div4(ms.vel.z))
            IN  [m |-> perform_air_quarter_step(ms, ip, {}, qq).m,
                 originOffset |-> PseudoFloorOriginOffset(ms, qq, o)]
        a == ActorQuarterStep(slots[order[1]], qs[order[1]], off)
        b == ActorQuarterStep(slots[order[2]], qs[order[2]], a.originOffset)
    IN  [gMarioStates |-> [k \in 1..2 |-> IF k = order[1] THEN a.m ELSE b.m],
         originOffset |-> b.originOffset]

InitActors ==
    /\ m = MarioInit
    /\ stepArg = {}
    /\ pc = "actors"
    /\ i = 0
    /\ stepResult = AIR_STEP_NONE
    /\ quarterStepResult = AIR_STEP_NONE
    /\ q = <<QBase, QBase>>
    /\ intendedPos = V3(0, 0, 0)
    /\ gMarioStates \in [1..2 -> {[MarioInit EXCEPT !.action = a, !.vel.y = vy] :
                                     a \in {"ACT_RIDING_SHELL_JUMP", "ACT_JUMP"},
                                     vy \in {F(-10), F(-2)}}]
    /\ originOffset = 0
    /\ pre = [gMarioStates |-> gMarioStates, originOffset |-> 0, order |-> <<1, 2>>]
    /\ trace = <<>>
    /\ ret = AIR_STEP_NONE
    /\ calls = 0
    /\ tick = TickNone
    /\ cancel = FALSE

ActorsTick(order, q1, q2) ==
    /\ pc = "actors"
    /\ LET r == UpdateActors(order, gMarioStates, <<q1, q2>>, originOffset)
       IN  /\ gMarioStates' = r.gMarioStates
           /\ originOffset' = r.originOffset
    /\ pre' = [gMarioStates |-> gMarioStates, originOffset |-> originOffset, order |-> order]
    /\ q' = <<q1, q2>>
    /\ pc' = "updated"
    /\ UNCHANGED <<m, stepArg, i, stepResult, quarterStepResult, intendedPos, trace, ret,
                   calls, tick, cancel>>

NextActors ==
    \E order \in {<<1, 2>>, <<2, 1>>},
       q1, q2 \in {QBase} \cup {[QBase EXCEPT !.floorHeight = F(-20), !.waterLevel = w,
                                              !.allowWater = a] :
                                   w \in {F(4), F(3)}, a \in BOOLEAN} :
        ActorsTick(order, q1, q2)

SpecActors == InitActors /\ [][NextActors]_vars

-----------------------------------------------------------------------------
(* Specification of one ground step: a walking actor calls                  *)
(* perform_ground_step once; trace holds the results of its quarter-steps   *)

InitGround ==
    /\ m \in {[MarioInit EXCEPT !.action = a, !.pos.y = 0, !.peakHeight = 0,
                                !.vel = V3(0, 0, F(8)), !.forwardVel = F(8),
                                !.slideVelZ = F(8), !.floor = fl] :
                a \in {"ACT_WALKING", "ACT_RIDING_SHELL_GROUND"},
                fl \in {FloorFlat, FloorSteep, NoSurface}}
    /\ stepArg = {}
    /\ pc = "gcall"
    /\ InitCommon

\* entry: HOOK_BEFORE_PHYS_STEP may return a step outcome of its own
GroundStepEnter(hook) ==
    /\ pc = "gcall"
    /\ pre' = m
    /\ trace' = <<>>
    /\ i' = 0
    /\ IF hook.override
       THEN pc' = "gret" /\ ret' = hook.returnValue
       ELSE pc' = "gloop" /\ ret' = ret
    /\ UNCHANGED <<m, stepArg, stepResult, quarterStepResult, q, intendedPos, calls, tick,
                   cancel, gMarioStates, originOffset>>

\* one pass of the loop; defacto is the answer of
\* HOOK_MARIO_OVERRIDE_PHYS_STEP_DEFACTO_SPEED, in thousandths
GroundQuarterStep(qq, defacto) ==
    /\ pc = "gloop"
    /\ LET floorNormal == IF defacto.override THEN defacto.value ELSE m.floor.ny
           ip == IF m.floor # NoSurface
                 THEN V3(m.pos.x + Mul1000(Div4(m.vel.x), floorNormal), m.pos.y,
                         m.pos.z + Mul1000(Div4(m.vel.z), floorNormal))
                 ELSE m.pos
           r  == perform_ground_quarter_step(m, ip, qq)
       IN  /\ intendedPos' = ip
           /\ q' = qq
           /\ pre' = m
           /\ m' = r.m
           /\ quarterStepResult' = r.result
           /\ stepResult' = r.result
           /\ trace' = Append(trace, r.result)
           /\ i' = i + 1
           /\ pc' = IF r.result \in {"GROUND_STEP_LEFT_GROUND",
                                     "GROUND_STEP_HIT_WALL_STOP_QSTEPS"} \/ i + 1 >= 4
                    THEN "gfinish" ELSE "gloop"
    /\ originOffset' = PseudoFloorOriginOffset(m, qq, originOffset)
    /\ UNCHANGED <<stepArg, ret, calls, tick, cancel, gMarioStates>>

\* after the loop: the result is converted and returned
GroundStepFinish ==
    /\ pc = "gfinish"
    /\ ret' = GroundStepReturn(stepResult)
    /\ pc' = "gret"
    /\ calls' = calls + 1
    /\ UNCHANGED <<m, stepArg, i, stepResult, quarterStepResult, q, intendedPos, pre, trace,
                   tick, cancel, gMarioStates, originOffset>>

NextGround ==
    \/ \E hook \in {[override |-> FALSE, returnValue |-> "GROUND_STEP_NONE"],
                    [override |-> TRUE, returnValue |-> "GROUND_STEP_NONE"],
                    [override |-> TRUE, returnValue |-> "GROUND_STEP_HIT_WALL"],
                    [override |-> TRUE, returnValue |-> "GROUND_STEP_LEFT_GROUND"]} :
          GroundStepEnter(hook)
    \/ \E qq \in {QBase,
                  [QBase EXCEPT !.floor = NoSurface, !.floorHeight = F(-11000),
                                !.bouncy = "BOUNCY_LEVEL_BOUNDS_ON"],
                  [QBase EXCEPT !.floorHeight = F(-101)],
                  [QBase EXCEPT !.floorHeight = F(-100)],
                  [QBase EXCEPT !.floorHeight = F(-101), !.ceilHeight = F(160)],
                  [QBase EXCEPT !.floorHeight = F(-101), !.ceilHeight = F(160) + 1],
                  [QBase EXCEPT !.floorHeight = F(-101), !.waterLevel = F(-50)],
                  [QBase EXCEPT !.ceilHeight = F(160)],
                  [QBase EXCEPT !.upperWalls = <<WFront>>, !.push = V3(0, 0, F(-1))],
                  [QBase EXCEPT !.upperWalls = <<WSide>>, !.push = V3(F(1), 0, 0)],
                  [QBase EXCEPT !.upperWalls = <<WFront, WSide>>, !.push = V3(0, 0, F(-1)),
                                !.fixCollisionBugs = TRUE]},
          defacto \in {[override |-> FALSE, value |-> 0], [override |-> TRUE, value |-> 500]} :
          GroundQuarterStep(qq, defacto)
    \/ GroundStepFinish

SpecGround == InitGround /\ [][NextGround]_vars

-----------------------------------------------------------------------------
(* Specification of termination: one call of perform_air_step, or one call  *)
(* of perform_ground_step, or one per-wall loop of a quarter-step, run to   *)
(* its return under weak fairness of the program's steps.  In the per-wall  *)
(* loop i is the u8 loop index and q.upperWalls the candidates.             *)

\* one evaluation of the loop condition and, if it holds, one pass of the
\* body of   for (u8 i = 0; i < numWalls; i++) { if (!fix) i = numWalls - 1; ... }
\* hit says whether the pass returns from the quarter-step
PerWallLoop(hit) ==
    /\ pc = "walls"
    /\ IF i < Len(q.upperWalls)
       THEN LET k == IF ~q.fixCollisionBugs THEN (Len(q.upperWalls) - 1) % 256 ELSE i
            IN  IF hit THEN i' = k /\ pc' = "wret"
                ELSE i' = (k + 1) % 256 /\ pc' = "walls"
       ELSE i' = i /\ pc' = "wdone"
    /\ UNCHANGED <<m, stepArg, stepResult, quarterStepResult, q, intendedPos, pre, trace, ret,
                   calls, tick, cancel, gMarioStates, originOffset>>

InitLive ==
    \/ InitStep /\ m.action \notin {"ACT_FLYING", "ACT_BUBBLED"} /\ m.ceil = NoSurface
    \/ InitGround /\ m.action = "ACT_WALKING" /\ m.floor = FloorFlat
    \/ /\ m = MarioInit
       /\ stepArg = {}
       /\ pc = "walls"
       /\ i = 0
       /\ stepResult = AIR_STEP_NONE
       /\ quarterStepResult = AIR_STEP_NONE
       /\ q \in {[QBase EXCEPT !.upperWalls = [k \in 1..n |-> WFront],
                               !.fixCollisionBugs = f] : n \in 0..MaxWalls, f \in BOOLEAN}
       /\ intendedPos = V3(0, 0, 0)
       /\ pre = m
       /\ trace = <<>>
       /\ ret = AIR_STEP_NONE
       /\ calls = 0
       /\ tick = TickNone
       /\ cancel = FALSE
       /\ gMarioStates = <<>>
       /\ originOffset = 0

NextLive ==
    \/ NextStep
    \/ NextGround
    \/ \E hit \in BOOLEAN : PerWallLoop(hit)

SpecLive == InitLive /\ [][NextLive]_vars /\ WF_vars(NextLive)

-----------------------------------------------------------------------------
(* Specification of fall damage: a handler whose air step has landed calls  *)
(* check_fall_damage                                                        *)

FallInitStates ==
    {[MarioInit EXCEPT !.action = a, !.pos.y = 0, !.peakHeight = h, !.vel.y = vy,
                       !.flags = fl, !.hurtCounter = hc, !.heldObj = held,
                       !.actionTimer = 3, !.floor = Surf(ft, 0, 1000, 0)] :
        a \in {"ACT_JUMP", "ACT_DIVE", "ACT_AIR_THROW", "ACT_GROUND_POUND",
               "ACT_BACKWARD_AIR_KB"},
        h \in {0, F(1150), F(1150) + 1, F(2000), F(3000), F(3000) + 1, F(3001)},
        vy \in {F(-55), F(-55) - 1, F(-75)},
        fl \in {{}, {"MARIO_CAP_ON_HEAD"}},
        hc \in {0, 5},
        held \in BOOLEAN,
        ft \in {"SURFACE_DEFAULT", "SURFACE_BURNING"}}

InitFall ==
    /\ m \in FallInitStates
    /\ stepArg = {}
    /\ pc = "fcall"
    /\ InitCommon

\* the call check_fall_damage(m, hardFallAction)
FallCall(hardFallAction, slippery) ==
    /\ pc = "fcall"
    /\ LET r == check_fall_damage(m, hardFallAction, slippery)
       IN  /\ m' = r.m
           /\ ret' = r.ret
    /\ pre' = m
    /\ q' = [hardFallAction |-> hardFallAction, slippery |-> slippery]
    /\ pc' = "fret"
    /\ UNCHANGED <<stepArg, i, stepResult, quarterStepResult, intendedPos, trace, calls, tick, cancel,
                   gMarioStates, originOffset>>

NextFall ==
    \E hardFallAction \in {"ACT_HARD_BACKWARD_GROUND_KB", "ACT_HARD_FORWARD_GROUND_KB"},
       slippery \in BOOLEAN : FallCall(hardFallAction, slippery)

SpecFall == InitFall /\ [][NextFall]_vars

-----------------------------------------------------------------------------
(* Specification of the airborne tick: mario_execute_airborne_action is     *)
(* called tick after tick while the actor is in an airborne action          *)

\* ticks followed in one run
MaxTicks == 2

\* an actor 12 units above the floor, in an action with a handler of the
\* model or in one with no airborne handler; then one aspect varies at a time
TickInitStates ==
    LET Base(a, vy) == [MarioInit EXCEPT !.action = a, !.pos.y = F(12), !.peakHeight = F(12),
                                         !.vel = V3(0, vy, F(20)), !.forwardVel = F(20),
                                         !.slideVelZ = F(20), !.heldObj = (a = "ACT_AIR_THROW"),
                                         !.intendedYaw = 16384, !.intendedMag = F(32)]
        Actions == {"ACT_JUMP", "ACT_FREEFALL", "ACT_AIR_THROW", "ACT_LUA_AIR"}
    IN  {Base(a, vy) : a \in Actions, vy \in {F(-20), F(8)}}
        \cup {[Base(a, F(-20)) EXCEPT !.waterLevel = F(200), !.quicksandDepth = F(20)] :
                 a \in Actions}
        \cup {[Base(a, F(-20)) EXCEPT !.floor = fl, !.quicksandDepth = F(20)] :
                 a \in Actions, fl \in {FloorWind, Surf("SURFACE_HORIZONTAL_WIND", 0, 1000, 0)}}
        \cup {[Base(a, F(-60)) EXCEPT !.peakHeight = h, !.quicksandDepth = F(20)] :
                 a \in Actions, h \in {F(1200), F(3100)}}
        \cup {[Base("ACT_JUMP", F(-20)) EXCEPT !.vel.z = fv, !.forwardVel = fv,
                                               !.slideVelZ = fv] :
                 fv \in {F(28), F(28) + 1}}

InitTick ==
    /\ m \in TickInitStates
    /\ stepArg = {}
    /\ pc = "tick"
    /\ InitCommon

EnvBase ==
    [allowHWind |-> TRUE, allowLava |-> TRUE, menu |-> FALSE, terrainType |-> "TERRAIN_GRASS",
     floorFlags |-> 0, slippery |-> FALSE, bouncy |-> "BOUNCY_LEVEL_BOUNDS_OFF",
     loopEnd |-> 1, fixBonks |-> FALSE, animResult |-> TRUE, allowDeath |-> TRUE,
     canBubble |-> FALSE]

EnvSet ==
    {EnvBase,
     [EnvBase EXCEPT !.allowHWind = FALSE],
     [EnvBase EXCEPT !.allowLava = FALSE],
     [EnvBase EXCEPT !.menu = TRUE],
     [EnvBase EXCEPT !.terrainType = "TERRAIN_SNOW"],
     [EnvBase EXCEPT !.terrainType = "TERRAIN_SNOW", !.floorFlags = 1],
     [EnvBase EXCEPT !.slippery = TRUE],
     [EnvBase EXCEPT !.bouncy = "BOUNCY_LEVEL_BOUNDS_ON"]}

\* the answers the quarter-steps of a tick draw from
QTickSet ==
    {QBase,
     [QBase EXCEPT !.upperWalls = <<WFront>>, !.push = V3(0, 0, F(-1))],
     [QBase EXCEPT !.upperWalls = <<WLava>>, !.push = V3(F(1), 0, 0)]}

\* mario_execute_airborne_action up to the handler's call of perform_air_step,
\* or to its return when the tick makes no such call.  A hook that is not
\* asked leaves its answer at the default.
TickBegin(inp, allowWater, allowWind, hook, env) ==
    /\ pc \in {"tick", "done"}
    /\ tick.n < MaxTicks
    /\ HasFlag(m.action, "ACT_FLAG_AIR")
    /\ HandlerOf(m.action) # "default" \/ m.action = "ACT_LUA_AIR"
    /\ LET m0 == [m EXCEPT !.input = inp]
           c  == check_common_airborne_cancels(m0, allowWater, allowWind)
           m1 == play_far_fall_sound(c.m)
           d  == Dispatch(m1, env)
           t  == [n |-> tick.n + 1, start |-> m0, allowWater |-> allowWater,
                  allowWind |-> allowWind, hook |-> hook, cancelled |-> c.ret,
                  handler |-> "none", prev |-> tick.handler]
       IN  /\ ~(m0.pos.y < m0.waterLevel - F(100)) => allowWater
           /\ ~(/\ m0.floor.type = "SURFACE_VERTICAL_WIND"
                /\ HasFlag(m0.action, "ACT_FLAG_ALLOW_VERTICAL_WIND_ACTION")) => allowWind
           /\ c.ret => ~hook.handled
           /\ c.ret \/ hook.handled => env = EnvBase
           /\ pre' = m0
           /\ IF c.ret
              THEN /\ m' = c.m
                   /\ cancel' = TRUE
                   /\ tick' = t
                   /\ pc' = "done"
                   /\ stepArg' = stepArg
              ELSE IF hook.handled
              THEN /\ m' = m1
                   /\ cancel' = hook.cancel
                   /\ tick' = t
                   /\ pc' = "done"
                   /\ stepArg' = stepArg
              ELSE /\ m' = d.m
                   /\ cancel' = d.ret
                   /\ tick' = [t EXCEPT !.handler = HandlerOf(m1.action)]
                   /\ pc' = IF d.step THEN "call" ELSE "done"
                   /\ stepArg' = d.stepArg
    /\ UNCHANGED <<i, stepResult, quarterStepResult, q, intendedPos, trace, ret, calls,
                   gMarioStates, originOffset>>

\* the handler's call perform_air_step(m, stepArg)
TickStepEnter == \E hook \in PhysStepHookSet : AirStepEnter(stepArg, hook)

TickQuarter == \E qq \in QTickSet : AirQuarterStep(qq)

TickStepFinish ==
    \E gh \in {g \in GravityHookSet : g.dv = 0}, allowWind \in BOOLEAN :
        AirStepFinish(gh, allowWind)

\* the handler from the return of perform_air_step to its own return, where
\* the locals of the step are gone
TickResume(env) ==
    /\ pc = "ret"
    /\ tick.handler # "none"
    /\ pre' = tick.start
    /\ m' = DispatchResume(m, tick.handler, ret, env)
    /\ cancel' = FALSE
    /\ pc' = "done"
    /\ i' = 0
    /\ stepResult' = AIR_STEP_NONE
    /\ quarterStepResult' = AIR_STEP_NONE
    /\ q' = QBase
    /\ intendedPos' = V3(0, 0, 0)
    /\ trace' = <<>>
    /\ UNCHANGED <<stepArg, ret, calls, tick, gMarioStates, originOffset>>

NextTick ==
    \/ \E inp \in {{}, {"INPUT_B_PRESSED"}, {"INPUT_Z_PRESSED"}, {"INPUT_SQUISHED"},
                    {"INPUT_NONZERO_ANALOG"}},
          allowWater \in BOOLEAN, allowWind \in BOOLEAN,
          hook \in {[handled |-> FALSE, cancel |-> FALSE], [handled |-> TRUE, cancel |-> FALSE],
                    [handled |-> TRUE, cancel |-> TRUE]},
          env \in EnvSet :
            TickBegin(inp, allowWater, allowWind, hook, env)
    \/ TickStepEnter
    \/ TickQuarter
    \/ TickStepFinish
    \/ \E env \in EnvSet : TickResume(env)

SpecTick == InitTick /\ [][NextTick]_vars

-----------------------------------------------------------------------------
(* Specification of the crazy-box bounce: the actor enters the action with  *)
(* argument 0 over a flat floor at height 0 and act_crazy_box_bounce runs   *)
(* tick after tick until the action is left; no tick-level cancel fires.    *)
(* A wall or a lava wall may stand where the actor is launched.  tick.start *)
(* is the state the handler was entered with and tick.n the number of ticks *)
(* that applied a launch velocity.                                          *)

InitBounce ==
    /\ m \in {[MarioInit EXCEPT !.action = "ACT_CRAZY_BOX_BOUNCE",
                                !.prevAction = "ACT_FREEFALL",
                                !.pos.y = y, !.peakHeight = y,
                                !.vel = V3(0, 0, fv), !.forwardVel = fv, !.slideVelZ = fv,
                                !.heldObj = held] :
                y \in {0, F(12)}, fv \in {F(20), F(40)}, held \in BOOLEAN}
    /\ stepArg = {}
    /\ pc = "bounce"
    /\ InitCommon

BounceBegin ==
    /\ pc = "bounce"
    /\ m.action = "ACT_CRAZY_BOX_BOUNCE"
    /\ LET h == act_crazy_box_bounce(m, EnvBase)
       IN  /\ m' = h.m
           /\ stepArg' = h.stepArg
    /\ tick' = [tick EXCEPT !.start = m, !.handler = "act_crazy_box_bounce",
                            !.n = IF m.actionTimer = 0 THEN @ + 1 ELSE @]
    /\ pc' = "call"
    /\ UNCHANGED <<i, stepResult, quarterStepResult, q, intendedPos, pre, trace, ret, calls,
                   cancel, gMarioStates, originOffset>>

\* the handler from the return of perform_air_step to its own return
BounceResume(local) ==
    /\ pc = "ret"
    /\ tick.handler = "act_crazy_box_bounce"
    /\ pre' = tick.start
    /\ m' = act_crazy_box_bounce_switch(m, ret, EnvBase, local)
    /\ pc' = "bounce"
    /\ i' = 0
    /\ stepResult' = AIR_STEP_NONE
    /\ quarterStepResult' = AIR_STEP_NONE
    /\ q' = QBase
    /\ intendedPos' = V3(0, 0, 0)
    /\ trace' = <<>>
    /\ UNCHANGED <<stepArg, ret, calls, tick, cancel, gMarioStates, originOffset>>

NextBounce ==
    \/ BounceBegin
    \/ AirStepEnter(stepArg, [override |-> FALSE, returnValue |-> AIR_STEP_NONE])
    \/ \E qq \in IF tick.start.actionTimer = 0 /\ i = 0 THEN QTickSet ELSE {QBase} :
          AirQuarterStep(qq)
    \/ AirStepFinish([handled |-> FALSE, dv |-> 0], TRUE)
    \/ \E local \in BOOLEAN : BounceResume(local)

SpecBounce == InitBounce /\ [][NextBounce]_vars

-----------------------------------------------------------------------------
(* Specification of the handlers of single actions: the actor is in one of  *)
(* the actions below and its handler runs tick after tick, with the air     *)
(* step it calls, until the action is left; no tick-level cancel fires.     *)
(* A wall or a lava wall may stand in the way of the first air step, whose   *)
(* first quarter-step may also find a burning floor.                        *)
(* tick.start is the state the handler was entered with, tick.n the number  *)
(* of handler calls so far, tick.handler the action handled and tick.prev   *)
(* whether the tick called perform_air_step ("step") or not ("none"); q is  *)
(* what the hooks, the level and the settings answered in the last run.     *)

\* handler calls followed in one run
MaxActTicks == 13

InitAct ==
    /\ m \in {[MarioInit EXCEPT !.action = "ACT_GROUND_POUND", !.prevAction = "ACT_JUMP",
                                !.pos.y = y, !.peakHeight = y,
                                !.vel = V3(0, vy, fv), !.forwardVel = fv, !.slideVelZ = fv,
                                !.ceilHeight = c] :
                y \in {F(12), F(600)}, vy \in {F(-20), F(8)}, fv \in {0, F(20)},
                c \in {F(10000), F(200)}}
          \cup {[MarioInit EXCEPT !.action = "ACT_AIR_HIT_WALL", !.prevAction = "ACT_JUMP",
                                  !.pos.y = F(12), !.peakHeight = F(12),
                                  !.vel = V3(0, vy, fv), !.forwardVel = fv, !.slideVelZ = fv,
                                  !.heldObj = held] :
                   vy \in {F(-20), F(8)}, fv \in {F(8), F(20), F(38) - 1, F(38)},
                   held \in BOOLEAN}
          \cup {[MarioInit EXCEPT !.action = "ACT_SHOT_FROM_CANNON", !.prevAction = "ACT_IN_CANNON",
                                  !.pos.y = F(12), !.peakHeight = F(12),
                                  !.vel = V3(0, vy, fv), !.forwardVel = fv, !.slideVelZ = fv,
                                  !.flags = @ \cup cap] :
                   vy \in {F(-20), F(8)}, fv \in {F(9), F(20)},
                   cap \in {{}, {"MARIO_WING_CAP"}}}
          \cup {[MarioInit EXCEPT !.action = a, !.prevAction = "ACT_BURNING_GROUND",
                                  !.pos.y = F(12), !.peakHeight = F(12),
                                  !.vel = V3(0, vy, F(20)), !.forwardVel = F(20),
                                  !.slideVelZ = F(20),
                                  !.health = h, !.playerIndex = k] :
                   a \in {"ACT_BURNING_JUMP", "ACT_BURNING_FALL", "ACT_LAVA_BOOST"},
                   vy \in {F(-20), F(31)}, h \in {240, 256 + 5, 256 + 10, 256 + 25},
                   k \in {0, 1}}
    /\ stepArg = {}
    /\ pc = "act"
    /\ InitCommon

\* one run of the handler of m->action: from its entry to its call of
\* perform_air_step or to its return, or from the return of that call to its
\* own return
ActTick(inp, env) ==
    /\ pc \in {"act", "ret"}
    /\ pc = "act" => tick.n < MaxActTicks
    /\ pc = "ret" => inp = m.input
    /\ LET m0 == [m EXCEPT !.input = inp]
           sr == IF pc = "act" THEN "call" ELSE ret
           h  == CASE m.action = "ACT_GROUND_POUND" -> act_ground_pound(m0, sr, env)
                   [] m.action = "ACT_AIR_HIT_WALL" -> act_air_hit_wall(m0, sr, env)
                   [] m.action = "ACT_SHOT_FROM_CANNON" -> act_shot_from_cannon(m0, sr, env)
                   [] m.action = "ACT_BURNING_JUMP" -> act_burning_jump(m0, sr, env)
                   [] m.action = "ACT_BURNING_FALL" -> act_burning_fall(m0, sr, env)
                   [] m.action = "ACT_LAVA_BOOST" -> act_lava_boost(m0, sr, env)
                   [] OTHER -> NoStep(m0, FALSE)
       IN  /\ m.action \in {"ACT_GROUND_POUND", "ACT_AIR_HIT_WALL", "ACT_SHOT_FROM_CANNON",
                            "ACT_BURNING_JUMP", "ACT_BURNING_FALL", "ACT_LAVA_BOOST"}
           /\ m' = h.m
           /\ stepArg' = h.stepArg
           /\ cancel' = h.ret
           /\ pc' = IF h.step THEN "call" ELSE "act"
           /\ tick' = IF pc = "act"
                      THEN [tick EXCEPT !.n = @ + 1, !.start = m0, !.handler = m.action,
                                        !.prev = IF h.step THEN "step" ELSE "none"]
                      ELSE tick
           /\ pre' = IF pc = "act" THEN m0 ELSE tick.start
    /\ q' = env
    /\ i' = 0
    /\ stepResult' = AIR_STEP_NONE
    /\ quarterStepResult' = AIR_STEP_NONE
    /\ intendedPos' = V3(0, 0, 0)
    /\ trace' = <<>>
    /\ UNCHANGED <<ret, calls, gMarioStates, originOffset>>

NextAct ==
    \/ \E inp \in {{}, {"INPUT_A_PRESSED"}},
          env \in {EnvBase, [EnvBase EXCEPT !.loopEnd = 2], [EnvBase EXCEPT !.fixBonks = TRUE],
                    [EnvBase EXCEPT !.terrainType = "TERRAIN_SNOW"],
                    [EnvBase EXCEPT !.animResult = FALSE],
                    [EnvBase EXCEPT !.allowDeath = FALSE],
                    [EnvBase EXCEPT !.canBubble = TRUE]} :
          ActTick(inp, env)
    \/ AirStepEnter(stepArg, [override |-> FALSE, returnValue |-> AIR_STEP_NONE])
    \/ \E qq \in IF calls = 0 /\ i = 0
                   THEN QTickSet \cup {[QBase EXCEPT !.floor = Surf("SURFACE_BURNING", 0, 1000, 0)]}
                   ELSE {QBase} :
          AirQuarterStep(qq)
    \/ AirStepFinish([handled |-> FALSE, dv |-> 0], TRUE)

SpecAct == InitAct /\ [][NextAct]_vars

-----------------------------------------------------------------------------
(* Properties of one air quarter-step (SpecQStep) *)

\* the target of the quarter-step after the wall probes moved it
NextPosOf(ip, qq) == V3(ip.x + qq.push.x, ip.y, ip.z + qq.push.z)

\* the floor and floor height the quarter-step resolves against: the ones
\* find_floor answered, or the water surface for a shell rider
EffFloorHeight == IF UsesWaterFloor(pre, q) THEN q.waterLevel ELSE q.floorHeight
EffFloor == IF UsesWaterFloor(pre, q) THEN gWaterSurfacePseudoFloor ELSE q.floor

LandingCase == pc = "qret" /\ q.floor # NoSurface /\ intendedPos.y <= EffFloorHeight

\* C1: in an air quarter-step where a floor is found and the target height is
\* at or below the floor height, the result is landed and Y is that floor
\* height; X, Z, the floor and the floor height are set to the target's only
\* when ceilHeight - floorHeight > hitboxHeight, and are unchanged otherwise.
C1_LandingSnapsToFloor ==
    LandingCase =>
        /\ quarterStepResult = AIR_STEP_LANDED
        /\ m.pos.y = EffFloorHeight
        /\ IF q.ceilHeight - EffFloorHeight > pre.hitboxHeight
           THEN /\ m.pos.x = NextPosOf(intendedPos, q).x
                /\ m.pos.z = NextPosOf(intendedPos, q).z
                /\ m.floor = EffFloor
                /\ m.floorHeight = EffFloorHeight
           ELSE /\ m.pos.x = pre.pos.x
                /\ m.pos.z = pre.pos.z
                /\ m.floor = pre.floor
                /\ m.floorHeight = pre.floorHeight

\* a squeezed landing whose horizontal motion is discarded, and one on a
\* floor other than the recorded one
C1_Witness ==
    /\ LandingCase
    /\ q.ceilHeight - EffFloorHeight = pre.hitboxHeight
    /\ NextPosOf(intendedPos, q).x # pre.pos.x
    /\ m.pos.x = pre.pos.x
    /\ m.pos.y = EffFloorHeight

\* the quarter-step reaches its ledge-grab branch
LedgeBranch ==
    /\ pc = "qret"
    /\ q.floor # NoSurface
    /\ intendedPos.y > EffFloorHeight
    /\ intendedPos.y + pre.hitboxHeight <= q.ceilHeight
    /\ AIR_STEP_CHECK_LEDGE_GRAB \in stepArg
    /\ Len(q.upperWalls) = 0
    /\ Len(q.lowerWalls) > 0

\* the conditions of a ledge grab other than the vertical velocity, for the
\* k-th lower wall
LedgeConditions(k) ==
    /\ q.push.x * pre.vel.x + q.push.z * pre.vel.z <= 0
    /\ q.ledges[k].floor # NoSurface
    /\ q.ledges[k].height - intendedPos.y > F(100)
    /\ (q.fixCollisionBugs /\ q.fixFalseLedgeGrab) => q.ledges[k].floor.ny >= 906

\* the lower walls the quarter-step tries
TriedWalls ==
    IF q.fixCollisionBugs THEN 1..Len(q.lowerWalls) ELSE {Len(q.lowerWalls)}

\* C6: a ledge grab never succeeds when vel.y > 0; with vel.y = 0 it
\* succeeds whenever the other conditions hold for a wall that is tried.
C6_LedgeGrabVerticalVelocity ==
    /\ (pc = "qret" /\ pre.vel.y > 0) => quarterStepResult # AIR_STEP_GRABBED_LEDGE
    /\ (LedgeBranch /\ pre.vel.y = 0 /\ \E k \in TriedWalls : LedgeConditions(k))
           => quarterStepResult = AIR_STEP_GRABBED_LEDGE

C6_Witness ==
    /\ LedgeBranch
    /\ pre.vel.y = 0
    /\ pre.vel.x # 0
    /\ quarterStepResult = AIR_STEP_GRABBED_LEDGE
    /\ m.pos.y = F(106)

-----------------------------------------------------------------------------
(* Properties of perform_air_step (SpecStep) *)

RECURSIVE LastNonNone(_)
LastNonNone(t) ==
    IF t = <<>> THEN AIR_STEP_NONE
    ELSE IF t[Len(t)] # AIR_STEP_NONE THEN t[Len(t)]
    ELSE LastNonNone(SubSeq(t, 1, Len(t) - 1))

\* the loop of perform_air_step has ended
LoopEnded == pc \in {"finish", "ret"} /\ trace # <<>>

-----------------------------------------------------------------------------
(* Properties of apply_gravity (SpecGravity) *)

\* the last apply_gravity call fell through to the default rule: no hook
\* override and none of the special actions or flags
DefaultRuleCase ==
    /\ pc = "gret"
    /\ ~q.handled
    /\ ~(pre.action = "ACT_TWIRLING" /\ pre.vel.y < 0)
    /\ pre.action \notin {"ACT_SHOT_FROM_CANNON", "ACT_LONG_JUMP", "ACT_SLIDE_KICK",
                          "ACT_BBH_ENTER_SPIN", "ACT_LAVA_BOOST",
                          "ACT_FALL_AFTER_STAR_GRAB", "ACT_GETTING_BLOWN"}
    /\ ~should_strengthen_gravity_for_jump_ascent(pre)
    /\ ~HasFlag(pre.action, "ACT_FLAG_METAL_WATER")
    /\ ~("MARIO_WING_CAP" \in pre.flags /\ pre.vel.y < 0 /\ "INPUT_A_DOWN" \in pre.input)

\* C10: under the default rule the new vertical velocity is the old one
\* minus exactly 4, clamped once to -75; it is never below -75 after the call.
C10_DefaultGravity ==
    DefaultRuleCase =>
        /\ m.vel.y = Max(pre.vel.y - F(4), F(-75))
        /\ m.vel.y >= F(-75)
        /\ m = [pre EXCEPT !.vel.y = m.vel.y]

\* the call at which the clamp acts: -73 - 4 is below -75
C10_Witness ==
    /\ DefaultRuleCase
    /\ pre.vel.y = F(-73)
    /\ m.vel.y = F(-75)

\* the velocity after "vel[1] -= accel" with one clamp to the terminal velocity
Clamped(v, accel, terminal) == Max(v - accel, terminal)

\* C22: each apply_gravity call applies exactly one rule, the first whose
\* condition holds in the order hook override, twirling while falling, cannon,
\* long-jump family, lava-boost family, getting-blown, ascending jump,
\* metal-underwater, wing-cap float, default; after a clamping rule the
\* vertical velocity is not below -75 (default, long-jump family, cannon,
\* getting-blown), -65 (lava-boost family) or -16 (metal-underwater); when the
\* hook replaces the computation the built-in rules change nothing.
C22_OneRuleByPriority ==
    pc = "gret" =>
        LET v == pre.vel.y
            a == pre.action
            twirl == a = "ACT_TWIRLING" /\ v < 0
            cannon == ~twirl /\ a = "ACT_SHOT_FROM_CANNON"
            long == ~twirl /\ a \in {"ACT_LONG_JUMP", "ACT_SLIDE_KICK", "ACT_BBH_ENTER_SPIN"}
            lava == ~twirl /\ a \in {"ACT_LAVA_BOOST", "ACT_FALL_AFTER_STAR_GRAB"}
            blown == ~twirl /\ a = "ACT_GETTING_BLOWN"
            named == twirl \/ cannon \/ long \/ lava \/ blown
            ascent == ~named /\ should_strengthen_gravity_for_jump_ascent(pre)
            metal == ~named /\ ~ascent /\ HasFlag(a, "ACT_FLAG_METAL_WATER")
            wing == /\ ~named /\ ~ascent /\ ~metal
                    /\ "MARIO_WING_CAP" \in pre.flags /\ v < 0 /\ "INPUT_A_DOWN" \in pre.input
        IN  /\ m = [pre EXCEPT !.vel.y = m.vel.y, !.wingFlutter = m.wingFlutter]
            /\ m.wingFlutter # pre.wingFlutter => ~q.handled /\ wing
            /\ IF q.handled THEN m.vel.y = v + q.dv
               ELSE IF twirl THEN m.vel.y = apply_twirl_gravity(pre).vel.y
               ELSE IF cannon THEN m.vel.y = Clamped(v, F(1), F(-75)) /\ m.vel.y >= F(-75)
               ELSE IF long THEN m.vel.y = Clamped(v, F(2), F(-75)) /\ m.vel.y >= F(-75)
               ELSE IF lava THEN m.vel.y = Clamped(v, F(32) \div 10, F(-65)) /\ m.vel.y >= F(-65)
               ELSE IF blown THEN m.vel.y = Clamped(v, pre.unkC4, F(-75)) /\ m.vel.y >= F(-75)
               ELSE IF ascent THEN m.vel.y = Div4(v)
               ELSE IF metal THEN m.vel.y = Clamped(v, F(16) \div 10, F(-16)) /\ m.vel.y >= F(-16)
               ELSE IF wing THEN m.vel.y = WingCapGravity(pre).vel.y
               ELSE m.vel.y = Clamped(v, F(4), F(-75)) /\ m.vel.y >= F(-75)

\* a long jump that also meets the ascending-jump conditions took the
\* long-jump rule: 21 - 2, not 21 / 4
C22_Witness ==
    /\ pc = "gret"
    /\ ~q.handled
    /\ pre.action = "ACT_LONG_JUMP"
    /\ should_strengthen_gravity_for_jump_ascent(pre)
    /\ pre.vel.y = F(21)
    /\ m.vel.y = F(19)

\* the lava-boost rule clamped at its own terminal velocity of -65
C22_LavaClamp ==
    /\ pc = "gret"
    /\ ~q.handled
    /\ pre.action = "ACT_LAVA_BOOST"
    /\ pre.vel.y = F(-63)
    /\ m.vel.y = F(-65)

\* the hook replaced the computation of a twirling, falling actor
C22_HookOverride ==
    /\ pc = "gret"
    /\ q.handled
    /\ pre.action = "ACT_TWIRLING"
    /\ pre.vel.y < 0
    /\ m = pre

\* the floor of the wing-cap float, -37.5
FloatLimit == -(F(75) \div 2)

\* C23: under the wing-cap float rule the vertical velocity decreases by 2 per
\* tick while the result stays at or above -37.5; when the result would be
\* below -37.5 it rebounds by 4 but never above -37.5; under repeated
\* application from any falling velocity the velocity reaches -37.5 and then
\* stays exactly -37.5.
C23_WingCapFloat ==
    /\ [][/\ m.vel.y - F(2) >= FloatLimit => m'.vel.y = m.vel.y - F(2)
          /\ m.vel.y - F(2) < FloatLimit =>
                /\ m'.vel.y = -Max(-(m.vel.y - F(2) + F(4)), -FloatLimit)
                /\ m'.vel.y <= FloatLimit]_vars
    /\ <>(m.vel.y = FloatLimit)
    /\ [](m.vel.y = FloatLimit => [](m.vel.y = FloatLimit))

\* a tick of the float at the floor: -37.5 - 2 rebounds by 4 and is capped
C23_Witness ==
    /\ pc = "gret"
    /\ GravityRuleOf(pre, q) = "wing_cap"
    /\ pre.vel.y = FloatLimit
    /\ m.vel.y = FloatLimit

\* a tick of the float far below the floor: -73 - 2 + 4
C23_Rebound ==
    /\ pc = "gret"
    /\ GravityRuleOf(pre, q) = "wing_cap"
    /\ pre.vel.y = F(-73)
    /\ m.vel.y = F(-71)

\* the last apply_gravity call divided the vertical velocity by 4
JumpAscentCase == pc = "gret" /\ GravityRuleOf(pre, q) = "jump_ascent"

\* what the ascending-jump rule needs besides the jump button
JumpAscentConditions ==
    /\ "MARIO_UNKNOWN_08" \in pre.flags
    /\ HasFlag(pre.action, "ACT_FLAG_CONTROL_JUMP_HEIGHT")
    /\ ~HasFlag(pre.action, "ACT_FLAG_INVULNERABLE")
    /\ ~HasFlag(pre.action, "ACT_FLAG_INTANGIBLE")
    /\ pre.vel.y > F(20)

\* C11 as stated: the ascending-jump rule (vertical velocity divided by 4) is
\* applied only while the hold-flag is set, the action allows jump-height
\* control, the actor is neither invulnerable nor intangible, the jump button
\* remains held and the vertical velocity is above 20.
C11_JumpAscentWhileHeld ==
    JumpAscentCase => JumpAscentConditions /\ "INPUT_A_DOWN" \in pre.input

\* C11 amended: the ascending-jump rule (vertical velocity divided by 4) is
\* applied only while the hold-flag is set, the action allows jump-height
\* control, the actor is neither invulnerable nor intangible, the jump button
\* is not held and the vertical velocity is above 20.
C11_JumpAscentWhenReleased ==
    JumpAscentCase =>
        /\ JumpAscentConditions
        /\ "INPUT_A_DOWN" \notin pre.input
        /\ m = [pre EXCEPT !.vel.y = Div4(pre.vel.y)]

\* the button released at a vertical velocity of 21: it becomes 5.25
C11_Witness ==
    /\ JumpAscentCase
    /\ pre.vel.y = F(21)
    /\ "INPUT_A_DOWN" \notin pre.input
    /\ m.vel.y = F(21) \div 4

-----------------------------------------------------------------------------
(* Properties of mario_update_quicksand (SpecSand) *)

\* the last call sank the actor in deep or deep moving quicksand
DeepSandCase ==
    /\ pc = "sret"
    /\ pre.floor.type \in {"SURFACE_DEEP_QUICKSAND", "SURFACE_DEEP_MOVING_QUICKSAND"}
    /\ ~HasFlag(pre.action, "ACT_FLAG_RIDING_SHELL")
    /\ q.allow /\ ~q.menu

\* the depth accumulated by the last call
AccumulatedDepth == Max(pre.quicksandDepth, F(11) \div 10) + q.sinkingSpeed

\* C9: on deep quicksand the quicksand-death transition happens on the first
\* call at which the accumulated depth reaches or exceeds the hitbox height,
\* and on no earlier call: a call kills exactly when the depth it accumulates
\* is at or above the hitbox height, and a live actor's depth is below it.
C9_DeepQuicksandDeath ==
    /\ DeepSandCase =>
          /\ ret = (AccumulatedDepth >= pre.hitboxHeight)
          /\ (m.action = "ACT_QUICKSAND_DEATH") = (AccumulatedDepth >= pre.hitboxHeight)
          /\ m.quicksandDepth = AccumulatedDepth
    /\ m.action # "ACT_QUICKSAND_DEATH" => m.quicksandDepth < m.hitboxHeight

\* death on the call that takes the depth to exactly the hitbox height, after
\* earlier calls that sank the actor without killing it
C9_Witness ==
    /\ DeepSandCase
    /\ pre.quicksandDepth > F(11) \div 10
    /\ AccumulatedDepth = pre.hitboxHeight
    /\ ret = TRUE
    /\ m.action = "ACT_QUICKSAND_DEATH"

-----------------------------------------------------------------------------
(* Properties of check_fall_damage (SpecFall) *)

FallHeightOf(ms) == ms.peakHeight - ms.pos.y

CapHurt(withCap, withoutCap) ==
    IF "MARIO_CAP_ON_HEAD" \in pre.flags THEN withCap ELSE withoutCap

\* the check ran over a floor that is not burning, with vel.y < -55
FallCheckCase ==
    /\ pc = "fret"
    /\ pre.floor.type # "SURFACE_BURNING"
    /\ pre.vel.y < F(-55)

\* C7: when the fall height exceeds 3000, the floor is not burning and
\* vel.y < -55, the actor transitions to the supplied hard-fall action and the
\* hurt counter grows by 16 with the cap on the head, by 24 without it, in
\* every action the check is called from.
C7_HardFall ==
    FallCheckCase /\ FallHeightOf(pre) > F(3000) =>
        /\ m.action = q.hardFallAction
        /\ m.hurtCounter = pre.hurtCounter + CapHurt(16, 24)

\* a hard fall from just above 3000 without the cap
C7_Witness ==
    /\ FallCheckCase
    /\ FallHeightOf(pre) = F(3000) + 1
    /\ "MARIO_CAP_ON_HEAD" \notin pre.flags
    /\ m.action = q.hardFallAction
    /\ m.action # pre.action
    /\ m.hurtCounter = pre.hurtCounter + 24

\* C8: when the fall height is above 1150 but not above 3000, vel.y < -55 and
\* the floor is neither burning nor slippery, the hurt counter grows by 8 (cap
\* on the head) or 12, the squish timer becomes 30, the action is unchanged
\* and the check returns false; at a fall height of exactly 1150, or at vel.y
\* of exactly -55, nothing changes.
C8_MinorFallDamage ==
    /\ /\ FallCheckCase
       /\ FallHeightOf(pre) > F(1150)
       /\ FallHeightOf(pre) <= F(3000)
       /\ ~q.slippery
       => /\ m = [pre EXCEPT !.hurtCounter = @ + CapHurt(8, 12), !.squishTimer = 30]
          /\ m.action = pre.action
          /\ ret = FALSE
    /\ pc = "fret" /\ (FallHeightOf(pre) = F(1150) \/ pre.vel.y = F(-55)) => m = pre

\* minor damage from just above 1150 with the cap on the head
C8_Witness ==
    /\ FallCheckCase
    /\ FallHeightOf(pre) = F(1150) + 1
    /\ ~q.slippery
    /\ "MARIO_CAP_ON_HEAD" \in pre.flags
    /\ m.hurtCounter = pre.hurtCounter + 8
    /\ m.squishTimer = 30
    /\ ret = FALSE

-----------------------------------------------------------------------------
(* Properties of the airborne tick (SpecTick) *)

\* a tick has returned
TickDone == pc = "done" /\ tick.n >= 1

\* C2: every change of the action identifier made during an airborne tick
\* resets the action state and timer to 0 and records the identifier that was
\* current before the change as the previous action.
C2_ActionChangeResets ==
    TickDone /\ m.action # tick.start.action =>
        /\ m.actionState = 0
        /\ m.actionTimer = 0
        /\ m.prevAction = tick.start.action

\* the same, for the ticks in which act_air_throw does not land
C2_ResetsOutsideAirThrowLanding ==
    TickDone /\ m.action # tick.start.action /\ m.action # "ACT_AIR_THROW_LAND" =>
        /\ m.actionState = 0
        /\ m.actionTimer = 0
        /\ m.prevAction = tick.start.action

\* the conditions of the three tick-level cancels at the start of the tick
WaterCancel == tick.start.pos.y < tick.start.waterLevel - F(100) /\ tick.allowWater
SquishCancel == "INPUT_SQUISHED" \in tick.start.input
WindCancel ==
    /\ tick.start.floor.type = "SURFACE_VERTICAL_WIND"
    /\ HasFlag(tick.start.action, "ACT_FLAG_ALLOW_VERTICAL_WIND_ACTION")
    /\ tick.allowWind

\* the tick ended in the cancel that set action a: it returned true and no
\* handler ran
CancelledInto(a) ==
    /\ pc = "done"
    /\ cancel = TRUE
    /\ tick.handler = "none"
    /\ m.action = a

\* C3: in each airborne tick the cancels are evaluated in the order water
\* entry, squish, vertical wind; the first that fires sets its action, the
\* tick returns true and no handler runs; a vetoed water entry or a vetoed
\* wind cancel does not stop the later checks; the quicksand depth is cleared
\* exactly when none fired.
C3_TickCancelOrder ==
    tick.n >= 1 =>
        /\ WaterCancel => CancelledInto("ACT_WATER_PLUNGE")
        /\ ~WaterCancel /\ SquishCancel => CancelledInto("ACT_SQUISHED")
        /\ ~WaterCancel /\ ~SquishCancel /\ WindCancel => CancelledInto("ACT_VERTICAL_WIND")
        /\ ~WaterCancel /\ ~SquishCancel /\ ~WindCancel =>
              /\ ~tick.cancelled
              /\ m.quicksandDepth = 0
              /\ ~tick.hook.handled => tick.handler # "none"
        /\ tick.cancelled => m.quicksandDepth = tick.start.quicksandDepth

\* a vetoed water entry, then the squish cancel, with depth in the accumulator
C3_Witness ==
    /\ tick.n >= 1
    /\ tick.start.pos.y < tick.start.waterLevel - F(100)
    /\ ~tick.allowWater
    /\ SquishCancel
    /\ tick.start.quicksandDepth > 0
    /\ CancelledInto("ACT_SQUISHED")
    /\ m.quicksandDepth > 0

\* C5: for an action with no airborne handler, when no cancel fires and the
\* per-tick hook does not handle the tick, the tick sets free-fall with
\* argument, state and timer 0 and returns false, and the following tick, if
\* it gets to dispatch, runs the free-fall handler.
C5_UnknownActionFallsBack ==
    /\ /\ TickDone
       /\ HandlerOf(tick.start.action) = "default"
       /\ ~tick.cancelled
       /\ ~tick.hook.handled
       => /\ tick.handler = "default"
          /\ m.action = "ACT_FREEFALL"
          /\ m.actionArg = 0
          /\ m.actionState = 0
          /\ m.actionTimer = 0
          /\ cancel = FALSE
    /\ /\ tick.n >= 2
       /\ tick.prev = "default"
       /\ ~tick.cancelled
       /\ ~tick.hook.handled
       => tick.handler = "act_freefall"

\* the tick after an unknown action's tick has run the free-fall handler
C5_Witness ==
    /\ TickDone
    /\ tick.n = 2
    /\ tick.prev = "default"
    /\ tick.handler = "act_freefall"
    /\ tick.start.action = "ACT_FREEFALL"
    /\ tick.start.prevAction = "ACT_LUA_AIR"
    /\ tick.start.actionTimer = 0

\* the jump handler is running, or has run, in a tick with no button or stick input
JumpTick == tick.n >= 1 /\ tick.handler = "act_jump" /\ tick.start.input = {}

\* C12: in the jump action with no button or stick input, when a quarter-step
\* of the tick targets a height at or below the floor height, the air step
\* result is landed and Y is the floor height; with a fall height below the
\* fall-damage and stuck-in-ground thresholds the tick ends in the jump-land
\* action with argument, state and timer 0, and the handler returns false.
C12_JumpLands ==
    /\ /\ JumpTick
       /\ pc \in {"finish", "ret"}
       /\ i >= 1
       /\ q.floor # NoSurface
       /\ intendedPos.y <= q.floorHeight
       => /\ quarterStepResult = AIR_STEP_LANDED
          /\ stepResult = AIR_STEP_LANDED
          /\ pc = "ret" => ret = AIR_STEP_LANDED
          /\ m.pos.y = q.floorHeight
    /\ /\ JumpTick
       /\ pc = "done"
       /\ ret = AIR_STEP_LANDED
       /\ m.peakHeight - m.pos.y <= F(1000)
       => /\ m.action = "ACT_JUMP_LAND"
          /\ m.actionArg = 0
          /\ m.actionState = 0
          /\ m.actionTimer = 0
          /\ m.prevAction = "ACT_JUMP"
          /\ cancel = FALSE

\* a jump that started 12 above the floor has landed on it
C12_Witness ==
    /\ JumpTick
    /\ pc = "done"
    /\ ret = AIR_STEP_LANDED
    /\ tick.start.pos.y = F(12)
    /\ m.pos.y = 0
    /\ m.floorHeight = 0
    /\ m.action = "ACT_JUMP_LAND"
    /\ cancel = FALSE

\* the jump handler ran in a tick with the B button pressed
JumpKickOrDiveCase ==
    /\ tick.n >= 1
    /\ tick.handler = "act_jump"
    /\ "INPUT_B_PRESSED" \in tick.start.input

\* C13: in the jump action, when B is pressed the handler transitions at
\* once, to the dive action when forwardVel > 28 and to the jump-kick action
\* otherwise, returns true and does not invoke the stepper: position,
\* velocity, floor and wall references and peak height are unchanged.
C13_KickOrDive ==
    JumpKickOrDiveCase =>
        /\ pc = "done"
        /\ cancel = TRUE
        /\ m.action = IF tick.start.forwardVel > F(28) THEN "ACT_DIVE" ELSE "ACT_JUMP_KICK"
        /\ m.prevAction = "ACT_JUMP"
        /\ m.pos = tick.start.pos
        /\ m.vel = tick.start.vel
        /\ m.forwardVel = tick.start.forwardVel
        /\ m.floor = tick.start.floor
        /\ m.floorHeight = tick.start.floorHeight
        /\ m.wall = tick.start.wall
        /\ m.peakHeight = tick.start.peakHeight

\* B pressed at a forward velocity of exactly 28: a jump kick
C13_Witness ==
    /\ JumpKickOrDiveCase
    /\ tick.start.forwardVel = F(28)
    /\ m.action = "ACT_JUMP_KICK"
    /\ cancel = TRUE

-----------------------------------------------------------------------------
(* Properties of check_horizontal_wind (SpecWind) *)

\* check_horizontal_wind has just pushed the actor
WindPushCase == pc = "wret" /\ ret = TRUE

\* the magnitude of a horizontal vector, as check_horizontal_wind computes it
Magnitude(x, z) == sqrtf(x * x + z * z, 0, Max(x, -x) + Max(z, -z))

\* the raw magnitude of the call: the slide velocity it entered with plus
\* the push of 1.2 along the wind
RawWindSpeed ==
    Magnitude(pre.slideVelX + Mul1000(F(12) \div 10, sins(pre.floor.force * 256)),
              pre.slideVelZ + Mul1000(F(12) \div 10, coss(pre.floor.force * 256)))

\* C14: on a horizontal-wind floor with the hook allowing, after any
\* sequence of calls the slide velocity's magnitude is at most 48 (rescaled
\* to 48 when the raw sum exceeds it), the speed forwardVel is derived from
\* is 32 whenever the raw magnitude exceeds 32, also when the 48 cap
\* triggers, and |forwardVel| is at most 32.
C14_WindCaps ==
    WindPushCase =>
        /\ Magnitude(m.slideVelX, m.slideVelZ) <= F(48)
        /\ RawWindSpeed > F(48) => Magnitude(m.slideVelX, m.slideVelZ) >= F(48) - 2
        /\ RawWindSpeed > F(32) =>
              m.forwardVel = Mul1000(F(32), coss(m.faceAngle.yaw - m.slideYaw))
        /\ m.forwardVel <= F(32)
        /\ m.forwardVel >= F(-32)
        /\ m.vel.x = m.slideVelX
        /\ m.vel.z = m.slideVelZ

\* a call whose raw magnitude exceeded 48, the actor facing along the wind:
\* the slide velocity is rescaled and forwardVel is 32
C14_Witness ==
    /\ WindPushCase
    /\ RawWindSpeed > F(48)
    /\ pre.slideVelZ > F(40)
    /\ pre.slideVelZ <= F(48)
    /\ m.slideVelZ = F(48)
    /\ m.forwardVel = F(32)

-----------------------------------------------------------------------------
(* Properties of act_crazy_box_bounce (SpecBounce) *)

\* the launch velocity of a bounce, by action argument
LaunchVel(arg) == CASE arg = 0 -> F(45) [] arg = 1 -> F(60) [] OTHER -> F(100)

\* a tick of the crazy-box bounce whose air step has landed has just ended
BounceLanded == pc = "bounce" /\ tick.handler = "act_crazy_box_bounce" /\ ret = AIR_STEP_LANDED

\* C15: a transition resets the action-local timer and state to 0 even when
\* the new action equals the old one; so in the crazy-box bounce, entered with
\* argument 0, each landing with argument below 2 re-enters the action with
\* argument + 1, the launch velocity (45, 60, 100) is applied exactly once, on
\* the first tick after each (re)entry, and the landing with argument 2 leaves
\* to the stomach slide: three bounces in that order, never more.
C15_ThreeBounces ==
    /\ tick.n <= 3
    /\ m.action = "ACT_CRAZY_BOX_BOUNCE" =>
          /\ m.actionArg \in 0..2
          /\ m.actionTimer \in {0, 1}
          /\ tick.n = m.actionArg + m.actionTimer
    /\ pc = "call" =>
          m.vel.y = IF tick.start.actionTimer = 0 THEN LaunchVel(tick.start.actionArg)
                    ELSE tick.start.vel.y
    /\ BounceLanded =>
          IF tick.start.actionArg < 2
          THEN /\ m.action = "ACT_CRAZY_BOX_BOUNCE"
               /\ m.prevAction = "ACT_CRAZY_BOX_BOUNCE"
               /\ m.actionArg = tick.start.actionArg + 1
               /\ m.actionTimer = 0
               /\ m.actionState = 0
          ELSE /\ m.action = "ACT_STOMACH_SLIDE"
               /\ tick.n = 3

\* the third bounce, launched at 100, has landed and the action is left
C15_Witness ==
    /\ BounceLanded
    /\ tick.start.actionArg = 2
    /\ tick.n = 3
    /\ m.action = "ACT_STOMACH_SLIDE"
    /\ m.prevAction = "ACT_CRAZY_BOX_BOUNCE"

\* the conditions under which play_far_fall_sound, called on the state the
\* tick started with, plays the sound
FarFallAtStart ==
    /\ ~HasFlag(tick.start.action, "ACT_FLAG_INVULNERABLE")
    /\ tick.start.action \notin {"ACT_TWIRLING", "ACT_FLYING"}
    /\ "MARIO_UNKNOWN_18" \notin tick.start.flags
    /\ tick.start.peakHeight - tick.start.pos.y > F(1150)

\* C16: when the ACTION_HOOK_EVERY_FRAME hook handles the tick, no built-in
\* handler runs and the tick returns the hook's result; the tick-level cancels
\* and the long-fall sound check are evaluated before the hook, and a cancel
\* that fires prevents the hook from being consulted.
C16_HookHandlesTick ==
    /\ tick.n >= 1 /\ tick.hook.handled =>
          /\ pc = "done"
          /\ tick.handler = "none"
          /\ cancel = tick.hook.cancel
          /\ ~tick.cancelled
          /\ ~WaterCancel /\ ~SquishCancel /\ ~WindCancel
          /\ m.quicksandDepth = 0
          /\ m.flags = IF FarFallAtStart THEN tick.start.flags \cup {"MARIO_UNKNOWN_18"}
                       ELSE tick.start.flags
          /\ m.charSoundWaaaooow =
                tick.start.charSoundWaaaooow + (IF FarFallAtStart THEN 1 ELSE 0)
          /\ m = [tick.start EXCEPT !.quicksandDepth = 0, !.flags = m.flags,
                                    !.charSoundWaaaooow = m.charSoundWaaaooow]
    /\ tick.n >= 1 /\ tick.cancelled =>
          /\ ~tick.hook.handled
          /\ tick.handler = "none"
          /\ cancel = TRUE
          /\ m.flags = tick.start.flags

\* the hook handles a tick of a long fall and answers true: the depth is
\* cleared, the sound is latched, and nothing else has changed
C16_Witness ==
    /\ tick.n >= 1
    /\ tick.hook.handled
    /\ tick.hook.cancel
    /\ cancel = TRUE
    /\ tick.start.quicksandDepth > 0
    /\ FarFallAtStart
    /\ "MARIO_UNKNOWN_18" \in m.flags
    /\ m.action = tick.start.action

-----------------------------------------------------------------------------
(* Properties of play_far_fall_sound (SpecFarFall) *)

\* the call of play_far_fall_sound that has just returned played the sound
FarFallPlayed == pc = "fret" /\ m.charSoundWaaaooow > pre.charSoundWaaaooow

\* C17: the long-fall sound fires at most once per fall: over any sequence of
\* airborne ticks it is triggered only when peakHeight - pos.y > 1150 and the
\* action is not invulnerable, twirling or flying, and once triggered it is
\* not triggered again until code outside the tick clears the latch flag.
C17_FarFallOncePerFall ==
    /\ FarFallPlayed =>
          /\ m.charSoundWaaaooow = pre.charSoundWaaaooow + 1
          /\ pre.peakHeight - pre.pos.y > F(1150)
          /\ ~HasFlag(pre.action, "ACT_FLAG_INVULNERABLE")
          /\ pre.action \notin {"ACT_TWIRLING", "ACT_FLYING"}
          /\ "MARIO_UNKNOWN_18" \notin pre.flags
    /\ m.charSoundWaaaooow =
          calls + (IF "MARIO_UNKNOWN_18" \in m.flags THEN 1 ELSE 0)

\* a later tick of a fall whose sound has been played: the fall is still
\* long, the latch is set, and nothing is played
C17_Witness ==
    /\ pc = "fret"
    /\ pre.action = "ACT_FREEFALL"
    /\ pre.peakHeight - pre.pos.y > F(1150)
    /\ "MARIO_UNKNOWN_18" \in pre.flags
    /\ m.charSoundWaaaooow = pre.charSoundWaaaooow
    /\ m.charSoundWaaaooow = 2
    /\ calls = 1

-----------------------------------------------------------------------------
(* Properties of the update of two actors (SpecActors) *)

\* what the state of an actor reads: its record and, through its floor
\* reference, the fields of that surface; of these only the originOffset of
\* gWaterSurfacePseudoFloor is ever written
ActorView(ms, off) ==
    [m |-> ms,
     floorOriginOffset |-> IF ms.floor.ref = "gWaterSurfacePseudoFloor" THEN off ELSE 0]

\* the tick that has just ended, had its two updates run in the other order
OtherOrder == UpdateActors(<<pre.order[2], pre.order[1]>>, pre.gMarioStates, q, pre.originOffset)

\* C18: updating one actor changes nothing another actor's state reads: for
\* two slots updated one after the other in a tick, each actor's resulting
\* record, with the floor surface it references and that surface's fields,
\* is the same whichever update ran first, also when both ride a shell over
\* water and adopt the synthetic water-surface floor.
C18_UpdateOrderImmaterial ==
    pc = "updated" =>
        \A k \in 1..2 :
            ActorView(gMarioStates[k], originOffset)
                = ActorView(OtherOrder.gMarioStates[k], OtherOrder.originOffset)

\* the MarioState records themselves do not depend on the order
C18_RecordsOrderImmaterial ==
    pc = "updated" => gMarioStates = OtherOrder.gMarioStates

-----------------------------------------------------------------------------
(* Properties of the grab results of perform_air_step (SpecStep) *)

\* the two results that put the actor on a ledge or a ceiling
GrabResults == {AIR_STEP_GRABBED_LEDGE, AIR_STEP_GRABBED_CEILING}

\* C19: perform_air_step, when HOOK_BEFORE_PHYS_STEP does not override,
\* returns grabbed-ledge only if AIR_STEP_CHECK_LEDGE_GRAB is in stepArg, and
\* grabbed-ceiling only if AIR_STEP_CHECK_HANG is in stepArg, the referenced
\* ceiling is hangable and the vertical velocity was not negative; with a
\* stepArg of 0 it returns neither.
C19_GrabsNeedStepArg ==
    /\ pc = "loop" => stepResult \notin GrabResults
    /\ pc = "finish" /\ quarterStepResult = AIR_STEP_GRABBED_LEDGE =>
          AIR_STEP_CHECK_LEDGE_GRAB \in stepArg
    /\ pc = "finish" /\ quarterStepResult = AIR_STEP_GRABBED_CEILING =>
          /\ AIR_STEP_CHECK_HANG \in stepArg
          /\ pre.ceil.type = "SURFACE_HANGABLE"
          /\ pre.vel.y >= 0
          /\ m.ceil = pre.ceil
    /\ pc \in {"finish", "ret"} /\ i >= 1 =>
          /\ stepResult \in GrabResults => quarterStepResult = stepResult
          /\ pc = "ret" => ret = stepResult
          /\ stepResult = AIR_STEP_GRABBED_LEDGE => AIR_STEP_CHECK_LEDGE_GRAB \in stepArg
          /\ stepResult = AIR_STEP_GRABBED_CEILING =>
                AIR_STEP_CHECK_HANG \in stepArg /\ m.ceil.type = "SURFACE_HANGABLE"
          /\ stepArg = {} => stepResult \notin GrabResults

\* a step that was asked to check for a hang only has returned grabbed-ceiling
C19_Witness ==
    /\ pc = "ret"
    /\ i >= 1
    /\ stepArg = {AIR_STEP_CHECK_HANG}
    /\ ret = AIR_STEP_GRABBED_CEILING
    /\ m.ceil.type = "SURFACE_HANGABLE"

\* a step that was asked to check for a ledge only has returned grabbed-ledge
C19_LedgeReached ==
    /\ pc = "ret"
    /\ i >= 1
    /\ stepArg = {AIR_STEP_CHECK_LEDGE_GRAB}
    /\ ret = AIR_STEP_GRABBED_LEDGE

-----------------------------------------------------------------------------
(* Properties of perform_ground_step (SpecGround) *)

\* the quarter-step results that end the loop of perform_ground_step
GroundStopResults == {"GROUND_STEP_LEFT_GROUND", "GROUND_STEP_HIT_WALL_STOP_QSTEPS"}

C20_ContinueLast ==
    /\ pc = "gret"
    /\ i = 4
    /\ trace[4] = "GROUND_STEP_HIT_WALL_CONTINUE_QSTEPS"
    /\ ret = "GROUND_STEP_HIT_WALL"

-----------------------------------------------------------------------------
(* Properties of termination (SpecLive) *)

\* C21 as stated: every call of perform_air_step and of perform_ground_step
\* has performed at least one and at most four quarter-steps when it returns
C21_OneToFourQuarterSteps ==
    pc \in {"ret", "gret"} => i \in 1..4

\* C21: every call of perform_air_step and of perform_ground_step that
\* HOOK_BEFORE_PHYS_STEP does not override performs at least one and at most
\* four quarter-steps and then returns, for every number of candidate walls
\* and with the collision-fix toggle on or off (the per-wall loops that jump
\* to the last candidate terminate); no call is left unfinished.
C21_StepsReturn ==
    /\ [](pc \in {"finish", "gfinish"} => i \in 1..4)
    /\ [](pc \in {"ret", "gret"} => i \in 0..4 /\ (i = 0 <=> calls = 0))
    /\ [](pc = "walls" => i <= Len(q.upperWalls))
    /\ (pc \in {"call", "loop", "finish"} ~> pc = "ret")
    /\ (pc \in {"gcall", "gloop", "gfinish"} ~> pc = "gret")
    /\ (pc = "walls" ~> pc \in {"wret", "wdone"})

\* an air step that ran all four quarter-steps has returned
C21_Witness ==
    /\ pc = "ret"
    /\ i = 4
    /\ Len(trace) = 4
    /\ calls = 1

\* a per-wall loop over two candidates with the collision fix off has ended
\* without a hit
C21_WallLoopEnded ==
    /\ pc = "wdone"
    /\ Len(q.upperWalls) = 2
    /\ ~q.fixCollisionBugs
    /\ i = 2

-----------------------------------------------------------------------------
(* Gravity within perform_air_step (SpecStep) *)

\* C24 as stated: every call of perform_air_step has applied gravity exactly
\* once when it returns.
C24_GravityEveryCall == pc = "ret" => calls = 1

\* C24 amended: a call of perform_air_step that the before-step hook does not
\* override applies gravity exactly once, after the quarter-step loop and
\* whatever the number and the results of the quarter-steps; when the action
\* is flying or bubbled gravity leaves the vertical velocity unchanged and
\* only the vertical wind may change it.
C24_GravityOncePerStep ==
    /\ [][pc = "loop" => m'.vel.y \in {m.vel.y, 0}]_vars
    /\ [][pc = "finish" =>
            /\ pc' = "ret"
            /\ pre'.vel.y = m.vel.y
            /\ \E gh \in GravityHookSet, allowWind \in BOOLEAN :
                   m' = apply_vertical_wind(
                            IF pre'.action \in {"ACT_FLYING", "ACT_BUBBLED"} THEN pre'
                            ELSE apply_gravity(pre', gh), allowWind)]_vars
    /\ [](pc = "ret" /\ i >= 1 => calls = 1)
    /\ [](pc = "ret" /\ i = 0 => calls = 0 /\ m = pre)
    /\ [](pc \in {"call", "loop", "finish"} => calls = 0)

\* four quarter-steps ran and the default gravity was applied once
C24_Witness ==
    /\ pc = "ret"
    /\ i = 4
    /\ calls = 1
    /\ pre.action = "ACT_JUMP"
    /\ m.vel.y = pre.vel.y - F(4)

\* the loop broke off at its first quarter-step and gravity was still applied
C24_AfterEarlyBreak ==
    /\ pc = "ret"
    /\ i = 1
    /\ ret = AIR_STEP_LANDED
    /\ calls = 1
    /\ m.vel.y = pre.vel.y - F(4)

\* a flying actor's step: the vertical velocity is as the loop left it
C24_Flying ==
    /\ pc = "ret"
    /\ i >= 1
    /\ pre.action = "ACT_FLYING"
    /\ m.vel.y = pre.vel.y

-----------------------------------------------------------------------------
(* The branches of perform_air_quarter_step (SpecQStep) *)

\* the last quarter-step found no floor under its target
NoFloorCase == pc = "qret" /\ q.floor = NoSurface

\* C25: in an air quarter-step that finds no floor, X and Z are never changed;
\* if the target Y is at or below the recorded floor height the result is
\* landed with Y set to that recorded height and the boundary hook is not
\* notified; otherwise Y becomes the target Y, the result is hit-wall, the
\* boundary hook is notified, and yaw is reversed and forward velocity scaled
\* only when bouncy bounds are enabled.
C25_NoFloor ==
    NoFloorCase =>
        /\ m.pos.x = pre.pos.x
        /\ m.pos.z = pre.pos.z
        /\ IF intendedPos.y <= pre.floorHeight
           THEN /\ quarterStepResult = AIR_STEP_LANDED
                /\ m.pos.y = pre.floorHeight
                /\ m.collideLevelBounds = pre.collideLevelBounds
                /\ m.faceAngle = pre.faceAngle
                /\ m.forwardVel = pre.forwardVel
           ELSE /\ quarterStepResult = AIR_STEP_HIT_WALL
                /\ m.pos.y = intendedPos.y
                /\ m.collideLevelBounds = pre.collideLevelBounds + 1
                /\ CASE q.bouncy = "BOUNCY_LEVEL_BOUNDS_OFF" ->
                            /\ m.faceAngle = pre.faceAngle
                            /\ m.forwardVel = pre.forwardVel
                     [] q.bouncy = "BOUNCY_LEVEL_BOUNDS_ON" ->
                            /\ m.faceAngle.yaw = S16(pre.faceAngle.yaw + 32768)
                            /\ m.forwardVel = FDiv(3 * pre.forwardVel, 2)
                     [] q.bouncy = "BOUNCY_LEVEL_BOUNDS_ON_CAP" ->
                            /\ m.faceAngle.yaw = S16(pre.faceAngle.yaw + 32768)
                            /\ m.forwardVel = clamp(FDiv(3 * pre.forwardVel, 2), F(-500), F(500))

\* out of bounds above the recorded floor with bouncy bounds: the hook is
\* notified, the actor turned round and sped up from 4 to 6
C25_Witness ==
    /\ NoFloorCase
    /\ quarterStepResult = AIR_STEP_HIT_WALL
    /\ q.bouncy = "BOUNCY_LEVEL_BOUNDS_ON"
    /\ pre.forwardVel = F(4)
    /\ m.forwardVel = F(6)
    /\ m.faceAngle.yaw = -16384
    /\ m.pos.x # intendedPos.x
    /\ m.collideLevelBounds = 1

\* out of bounds at or below the recorded floor: landed, no notification
C25_LandedOutOfBounds ==
    /\ NoFloorCase
    /\ quarterStepResult = AIR_STEP_LANDED
    /\ pre.pos.y > pre.floorHeight
    /\ m.pos.y = pre.floorHeight
    /\ m.collideLevelBounds = 0

\* the last quarter-step found a floor below its target and a ceiling less
\* than the hitbox height above it
CeilingCase ==
    /\ pc = "qret"
    /\ q.floor # NoSurface
    /\ intendedPos.y > EffFloorHeight
    /\ intendedPos.y + pre.hitboxHeight > q.ceilHeight

\* C26: in an air quarter-step where the target is above the floor and the
\* target height plus the hitbox height exceeds the ceiling: if the actor is
\* moving upward (a vertical velocity of exactly 0 counts as upward) the
\* vertical velocity becomes 0, the position is unchanged and the result is
\* grabbed-ceiling or none; if moving downward the result is landed at the
\* recorded floor height when the target Y is at or below it, else hit-wall
\* with only Y moved to the target.
C26_Ceiling ==
    CeilingCase =>
        IF pre.vel.y >= 0
        THEN /\ m.vel.y = 0
             /\ m.pos = pre.pos
             /\ quarterStepResult \in {AIR_STEP_GRABBED_CEILING, AIR_STEP_NONE}
             /\ m = [pre EXCEPT !.vel.y = 0, !.wall = NoSurface]
        ELSE IF intendedPos.y <= pre.floorHeight
        THEN /\ quarterStepResult = AIR_STEP_LANDED
             /\ m = [pre EXCEPT !.pos.y = pre.floorHeight, !.wall = NoSurface]
        ELSE /\ quarterStepResult = AIR_STEP_HIT_WALL
             /\ m = [pre EXCEPT !.pos.y = intendedPos.y, !.wall = NoSurface]

\* a resting vertical velocity is handled as upward: nothing moves
C26_Witness ==
    /\ CeilingCase
    /\ pre.vel.y = 0
    /\ pre.vel.x = F(4)
    /\ m.pos = pre.pos
    /\ quarterStepResult = AIR_STEP_NONE

\* falling under a low ceiling to below the recorded floor height
C26_LandedUnderCeiling ==
    /\ CeilingCase
    /\ pre.vel.y < 0
    /\ quarterStepResult = AIR_STEP_LANDED
    /\ m.pos.y = pre.floorHeight
    /\ m.pos.y > q.floorHeight

\* falling under a low ceiling, still above the recorded floor height
C26_HitCeilingFalling ==
    /\ CeilingCase
    /\ pre.vel.y < 0
    /\ quarterStepResult = AIR_STEP_HIT_WALL
    /\ m.pos.y = intendedPos.y
    /\ m.pos.x = pre.pos.x
    /\ pre.vel.x = F(4)

\* the last quarter-step reached its free-motion branch
FreeMotionCase ==
    /\ pc = "qret"
    /\ q.floor # NoSurface
    /\ intendedPos.y > EffFloorHeight
    /\ intendedPos.y + pre.hitboxHeight <= q.ceilHeight
    /\ ~(AIR_STEP_CHECK_LEDGE_GRAB \in stepArg /\ Len(q.upperWalls) = 0 /\ Len(q.lowerWalls) > 0)

\* the walls the free-motion branch looks at: the upper-probe walls, or the
\* lower-probe walls when there are no upper ones
ProbedWalls == IF Len(q.upperWalls) > 0 THEN q.upperWalls ELSE q.lowerWalls

\* the candidates of that list: all of them, or the last with the legacy toggle
Candidates ==
    IF Len(ProbedWalls) = 0 THEN {}
    ELSE IF q.fixCollisionBugs THEN 1..Len(ProbedWalls) ELSE {Len(ProbedWalls)}

IsLava(k) == ProbedWalls[k].type = "SURFACE_BURNING"

\* the wall's normal yaw minus the facing yaw, wrapped to 16 bits, lies
\* outside [-0x6000, 0x6000]
IsFrontal(k) ==
    LET wallDYaw == S16(atan2s(ProbedWalls[k].nz, ProbedWalls[k].nx) - pre.faceAngle.yaw)
    IN  wallDYaw < -24576 \/ wallDYaw > 24576

\* C27: in the free-motion branch of an air quarter-step, lower-probe walls
\* are inspected only when there are no upper-probe walls; the result is
\* hit-lava-wall when a candidate wall is lava-type, hit-wall when a candidate
\* wall's normal yaw minus the facing yaw lies outside [-0x6000, 0x6000],
\* otherwise none; with the legacy toggle only the last wall is a candidate,
\* and with all walls candidates a lava wall anywhere in the list is reported
\* as hit-lava-wall.
C27_FreeMotionWalls ==
    FreeMotionCase =>
        quarterStepResult =
            IF \E k \in Candidates : IsLava(k) THEN AIR_STEP_HIT_LAVA_WALL
            ELSE IF \E k \in Candidates : IsFrontal(k) THEN AIR_STEP_HIT_WALL
            ELSE AIR_STEP_NONE

\* C27, what the code does: the first candidate that is lava-type or frontal
\* decides the result and becomes the referenced wall; a lava wall behind a
\* frontal one is not looked at.
C27_FirstDecisiveWall ==
    FreeMotionCase =>
        LET Decisive == {k \in Candidates : IsLava(k) \/ IsFrontal(k)}
        IN  IF Decisive = {}
            THEN quarterStepResult = AIR_STEP_NONE
            ELSE LET k == CHOOSE j \in Decisive : \A l \in Decisive : j <= l
                 IN  /\ quarterStepResult =
                            IF IsLava(k) THEN AIR_STEP_HIT_LAVA_WALL ELSE AIR_STEP_HIT_WALL
                     /\ m.wall = ProbedWalls[k]

\* with all walls candidates, a frontal wall ahead of a lava wall in the
\* list: the quarter-step reports hit-wall
C27_LavaBehindFrontal ==
    /\ FreeMotionCase
    /\ q.fixCollisionBugs
    /\ Len(ProbedWalls) = 2
    /\ IsFrontal(1) /\ ~IsLava(1)
    /\ IsLava(2)
    /\ quarterStepResult = AIR_STEP_HIT_WALL

\* the tried lower walls whose ledge-grab attempt succeeds
GrabbableWalls == {k \in TriedWalls : pre.vel.y <= 0 /\ LedgeConditions(k)}

\* C28: a failed ledge-grab attempt changes nothing in the actor state, so
\* that when no candidate succeeds the quarter-step commits the full target
\* position and reports none; a successful attempt sets the position to the
\* ledge point 60 units behind the wall normal, adopts the ledge floor, sets
\* pitch to 0 and yaw to the wall-normal yaw plus half a turn; a ledge floor
\* exactly 100 units above the target height does not succeed.
C28_LedgeGrabAttempts ==
    LedgeBranch =>
        LET nextPos == NextPosOf(intendedPos, q)
        IN  /\ IF GrabbableWalls = {}
               THEN /\ quarterStepResult = AIR_STEP_NONE
                    /\ m = [pre EXCEPT !.pos = nextPos, !.floor = EffFloor,
                                       !.floorHeight = EffFloorHeight, !.wall = NoSurface]
               ELSE LET k == CHOOSE j \in GrabbableWalls : \A l \in GrabbableWalls : j <= l
                        wall == q.lowerWalls[k]
                        ledge == q.ledges[k]
                    IN  /\ quarterStepResult = AIR_STEP_GRABBED_LEDGE
                        /\ m = [pre EXCEPT
                                   !.pos = V3(nextPos.x - FDiv(wall.nx * F(60), 1000), ledge.height,
                                              nextPos.z - FDiv(wall.nz * F(60), 1000)),
                                   !.floor = ledge.floor,
                                   !.floorHeight = ledge.height,
                                   !.floorAngle = atan2s(ledge.floor.nz, ledge.floor.nx),
                                   !.faceAngle = [pitch |-> 0,
                                                  yaw |-> S16(atan2s(wall.nz, wall.nx) + 32768),
                                                  roll |-> pre.faceAngle.roll],
                                   !.wall = NoSurface]
            /\ (\A k \in TriedWalls : q.ledges[k].height - intendedPos.y <= F(100))
                   => quarterStepResult # AIR_STEP_GRABBED_LEDGE

\* the second of two walls is grabbed after the attempt on the first failed
C28_Witness ==
    /\ LedgeBranch
    /\ q.fixCollisionBugs
    /\ Len(q.lowerWalls) = 2
    /\ GrabbableWalls = {2}
    /\ quarterStepResult = AIR_STEP_GRABBED_LEDGE
    /\ m.pos.y = q.ledges[2].height
    /\ m.pos.x # NextPosOf(intendedPos, q).x
    /\ m.faceAngle.pitch = 0

\* a ledge floor exactly 100 above the target, all else in favour: no grab,
\* the target position is committed
C28_ExactlyHundred ==
    /\ LedgeBranch
    /\ pre.vel.y = 0
    /\ \A k \in TriedWalls :
           /\ q.ledges[k].floor = FloorFlat
           /\ q.ledges[k].height - intendedPos.y = F(100)
    /\ q.push.x * pre.vel.x <= 0
    /\ quarterStepResult = AIR_STEP_NONE
    /\ m.pos = NextPosOf(intendedPos, q)

-----------------------------------------------------------------------------
(* The ground quarter-step (SpecGround) *)

\* a ground quarter-step has just returned
GroundQStepDone == pc \in {"gloop", "gfinish"} /\ i >= 1

\* C29: a ground quarter-step reports left-ground exactly when a floor is
\* found, the target height is more than 100 units above that floor and the
\* target height plus the hitbox height is below the ceiling; the position
\* then moves to the target without snapping Y to the floor; when no floor is
\* found it reports hit-wall-stop and leaves the position, floor and floor
\* height unchanged; in every other committed case Y equals the new floor
\* height.
C29_GroundQuarterStep ==
    GroundQStepDone =>
        LET nextPos == NextPosOf(intendedPos, q)
            leaves == /\ q.floor # NoSurface
                      /\ nextPos.y > EffFloorHeight + F(100)
                      /\ nextPos.y + pre.hitboxHeight < q.ceilHeight
        IN  /\ quarterStepResult = "GROUND_STEP_LEFT_GROUND" <=> leaves
            /\ leaves =>
                   /\ m.pos = nextPos
                   /\ m.floor = EffFloor
                   /\ m.floorHeight = EffFloorHeight
            /\ q.floor = NoSurface =>
                   /\ quarterStepResult = "GROUND_STEP_HIT_WALL_STOP_QSTEPS"
                   /\ m.pos = pre.pos
                   /\ m.floor = pre.floor
                   /\ m.floorHeight = pre.floorHeight
            /\ quarterStepResult = "GROUND_STEP_HIT_WALL_STOP_QSTEPS" =>
                   /\ m.pos = pre.pos
                   /\ m.floor = pre.floor
                   /\ m.floorHeight = pre.floorHeight
            /\ quarterStepResult \in {"GROUND_STEP_NONE", "GROUND_STEP_HIT_WALL_CONTINUE_QSTEPS"} =>
                   /\ m.pos = V3(nextPos.x, EffFloorHeight, nextPos.z)
                   /\ m.floor = EffFloor
                   /\ m.floorHeight = EffFloorHeight

\* the floor is 101 below the target: left-ground, Y stays above the floor
C29_Witness ==
    /\ GroundQStepDone
    /\ quarterStepResult = "GROUND_STEP_LEFT_GROUND"
    /\ m.pos.y = m.floorHeight + F(101)
    /\ m.pos.z # pre.pos.z
    /\ q.ceilHeight = F(160) + 1

\* the floor is exactly 100 below the target: the actor is snapped down to it
C29_SnapAtHundred ==
    /\ GroundQStepDone
    /\ intendedPos.y = q.floorHeight + F(100)
    /\ ~UsesWaterFloor(pre, q)
    /\ quarterStepResult = "GROUND_STEP_NONE"
    /\ m.pos.y = q.floorHeight

\* no floor under the target, with bouncy bounds: the position stays
C29_OutOfBounds ==
    /\ GroundQStepDone
    /\ q.floor = NoSurface
    /\ pre.floor # NoSurface
    /\ m.pos = pre.pos
    /\ m.forwardVel # pre.forwardVel

-----------------------------------------------------------------------------
(* The restricted update (SpecLavaBoost) *)

\* C30: after every update_lava_boost_or_twirling call the forward velocity
\* is not negative: whenever the forward velocity is negative it is negated
\* and the facing yaw is turned by half a turn, for every input including no
\* stick input.
C30_NeverBackward ==
    pc = "lret" =>
        /\ m.forwardVel >= 0
        /\ pre.forwardVel < 0 /\ "INPUT_NONZERO_ANALOG" \notin pre.input =>
               /\ m.forwardVel = -pre.forwardVel
               /\ m.faceAngle.yaw = S16(pre.faceAngle.yaw + 32768)

\* C30, what the code does: with stick input the forward velocity after the
\* call is not negative, a negative sum having been negated and the yaw
\* turned by half a turn; without stick input the forward velocity and the
\* yaw are as before the call, whatever their sign.
C30_FlipOnlyWithStick ==
    pc = "lret" =>
        IF "INPUT_NONZERO_ANALOG" \in pre.input
        THEN LET f1 == pre.forwardVel
                          + Mul1000(FDiv(pre.intendedMag, 32),
                                    coss(S16(pre.intendedYaw - pre.faceAngle.yaw)))
             IN  /\ m.forwardVel >= 0
                 /\ f1 < 0 => /\ m.forwardVel = -f1
                              /\ m.faceAngle.yaw = S16(pre.faceAngle.yaw + 32768)
                 /\ f1 >= 0 => m.faceAngle.yaw = pre.faceAngle.yaw
        ELSE /\ m.forwardVel = pre.forwardVel
             /\ m.faceAngle.yaw = pre.faceAngle.yaw

\* a call without stick input leaves the actor moving backward
C30_BackwardWithoutStick ==
    /\ pc = "lret"
    /\ "INPUT_NONZERO_ANALOG" \notin pre.input
    /\ pre.forwardVel = F(-10)
    /\ m.forwardVel = F(-10)
    /\ m.faceAngle.yaw = 0
    /\ m.vel.z = F(-10)

\* a call with the stick pushed back turns the actor round
C30_FlippedWithStick ==
    /\ pc = "lret"
    /\ "INPUT_NONZERO_ANALOG" \in pre.input
    /\ pre.forwardVel = 0
    /\ pre.faceAngle.yaw = 0
    /\ m.forwardVel = F(1)
    /\ m.faceAngle.yaw = -32768

-----------------------------------------------------------------------------
(* Properties of the ground pound (SpecAct) *)

\* a handler call of the ground pound has returned
GroundPoundTick == pc = "act" /\ tick.n > 0 /\ tick.handler = "ACT_GROUND_POUND"

\* the phase counter is 0 or 1 and never goes back, and a tick entered in the
\* rise phase makes no air step
GroundPoundPhases ==
    GroundPoundTick =>
        /\ tick.start.actionState \in {0, 1}
        /\ m.action = "ACT_GROUND_POUND" =>
               m.actionState \in {0, 1} /\ m.actionState >= tick.start.actionState
        /\ tick.start.actionState = 0 => tick.prev = "none" /\ calls = 0
        /\ tick.start.actionState = 1 => tick.prev = "step"

C31_Terminal ==
    /\ GroundPoundTick
    /\ tick.start.actionState = 1
    /\ m.action = "ACT_GROUND_POUND"
    /\ ret = AIR_STEP_NONE
    /\ tick.start.vel.y = F(-74)
    /\ m.vel.y = F(-75)

-----------------------------------------------------------------------------
(* Properties of the quicksand depth (SpecSand) *)

\* the last call was answered without looking at the floor
SandBypassed == HasFlag(pre.action, "ACT_FLAG_RIDING_SHELL") \/ ~q.allow \/ q.menu

\* the cap of the floor sub-type the last call saw
SandCap ==
    CASE pre.floor.type = "SURFACE_SHALLOW_QUICKSAND" -> F(10)
      [] pre.floor.type = "SURFACE_SHALLOW_MOVING_QUICKSAND" -> F(25)
      [] pre.floor.type \in {"SURFACE_QUICKSAND", "SURFACE_MOVING_QUICKSAND"} -> F(60)
      [] pre.floor.type \in {"SURFACE_DEEP_QUICKSAND", "SURFACE_DEEP_MOVING_QUICKSAND"} ->
             pre.hitboxHeight
      [] OTHER -> 0

C32_Inside ==
    /\ pc = "sret"
    /\ ~SandBypassed
    /\ pre.floor.type = "SURFACE_SHALLOW_QUICKSAND"
    /\ m.quicksandDepth = F(11) \div 10 + F(3) + F(3)

\* instant quicksand kills an actor that had not sunk at all
C32_InstantDeath ==
    /\ pc = "sret"
    /\ pre.floor.type = "SURFACE_INSTANT_QUICKSAND"
    /\ pre.quicksandDepth = 0
    /\ m.action = "ACT_QUICKSAND_DEATH"

-----------------------------------------------------------------------------
(* Properties of the air-hit-wall action (SpecAct) *)

\* a handler call of the air-hit-wall action has returned
HitWallTick == pc = "act" /\ tick.n > 0 /\ tick.handler = "ACT_AIR_HIT_WALL"

\* C33: a call of the air-hit-wall handler whose incremented timer is at most
\* 2 gives a wall kick on a jump-button press (vertical velocity 52, yaw
\* turned half a turn) and otherwise keeps the action and returns the
\* animation call's result; the first call whose timer exceeds 2 sets the
\* wall-kick timer to 5 and changes to backward air knockback when
\* forwardVel >= 38 and to soft bonk otherwise; an action entered with timer
\* 0 is therefore left by its third handler call at the latest
C33_AirHitWall ==
    HitWallTick =>
        LET s0 == tick.start
            t  == s0.actionTimer + 1
        IN  /\ (t <= 2 /\ "INPUT_A_PRESSED" \in s0.input) =>
                   /\ m.action = "ACT_WALL_KICK_AIR"
                   /\ m.vel.y = F(52)
                   /\ m.faceAngle.yaw = S16(s0.faceAngle.yaw + 32768)
                   /\ cancel
            /\ (t <= 2 /\ "INPUT_A_PRESSED" \notin s0.input) =>
                   /\ m.action = "ACT_AIR_HIT_WALL"
                   /\ m.actionTimer = t
                   /\ m.vel = s0.vel /\ m.forwardVel = s0.forwardVel
                   /\ cancel = q.animResult
            /\ t > 2 =>
                   /\ m.wallKickTimer = 5
                   /\ m.action = IF s0.forwardVel >= F(38) THEN "ACT_BACKWARD_AIR_KB"
                                 ELSE "ACT_SOFT_BONK"
                   /\ cancel
            /\ tick.n <= 3
            /\ m.action = "ACT_AIR_HIT_WALL" => tick.n <= 2

\* the third handler call has ended the action with a soft bonk just below
\* the knockback speed
C33_Witness ==
    /\ HitWallTick
    /\ tick.n = 3
    /\ tick.start.actionTimer = 2
    /\ tick.start.forwardVel = F(38) - 1
    /\ m.action = "ACT_SOFT_BONK"
    /\ m.wallKickTimer = 5

\* a call without a press has kept the action and returned non-zero
C33_ReturnsAnimResult ==
    /\ HitWallTick
    /\ m.action = "ACT_AIR_HIT_WALL"
    /\ cancel

-----------------------------------------------------------------------------
(* Properties of update_air_with_turn (SpecWind) *)

\* update_air_with_turn has returned
TurnDone == pc = "tret"

\* the horizontal velocity is the forward velocity along the facing yaw
VelFromForwardVel ==
    /\ m.vel.x = Mul1000(m.forwardVel, sins(m.faceAngle.yaw))
    /\ m.vel.z = Mul1000(m.forwardVel, coss(m.faceAngle.yaw))

\* C34 as stated: after every update_air_with_turn call, on every floor type,
\* vel.x = forwardVel * sin(yaw), vel.z = forwardVel * cos(yaw) and the slide
\* velocity equals (vel.x, vel.z)
C34_VelocityDerivable ==
    TurnDone => /\ VelFromForwardVel
                /\ m.slideVelX = m.vel.x
                /\ m.slideVelZ = m.vel.z

\* C34: after every update_air_with_turn call the slide velocity equals
\* (vel.x, vel.z), and vel.x = forwardVel * sin(yaw), vel.z = forwardVel *
\* cos(yaw) unless the floor is a horizontal-wind floor whose push the hook
\* allows; there the call is the wind's alone: the velocity is the pushed
\* slide velocity and forwardVel its capped magnitude along the facing yaw
C34_DerivableOffWind ==
    TurnDone =>
        /\ m.slideVelX = m.vel.x
        /\ m.slideVelZ = m.vel.z
        /\ ~(pre.floor.type = "SURFACE_HORIZONTAL_WIND" /\ q.allow) => VelFromForwardVel
        /\ (pre.floor.type = "SURFACE_HORIZONTAL_WIND" /\ q.allow) =>
               /\ ret = TRUE
               /\ m = check_horizontal_wind(pre, [allowHWind |-> TRUE]).m
               /\ m.faceAngle.yaw = pre.faceAngle.yaw

\* off the wind the stick has turned the actor and the velocity follows
C34_Witness ==
    /\ TurnDone
    /\ pre.floor.type = "SURFACE_DEFAULT"
    /\ m.faceAngle.yaw # pre.faceAngle.yaw
    /\ m.forwardVel > F(20)
    /\ m.vel.x = m.slideVelX
    /\ VelFromForwardVel

\* on a wind floor an actor facing across the wind has a velocity that its
\* forward velocity does not give
C34_AcrossWind ==
    /\ TurnDone
    /\ pre.floor.type = "SURFACE_HORIZONTAL_WIND"
    /\ q.allow
    /\ m.forwardVel = 0
    /\ m.vel.z # 0

-----------------------------------------------------------------------------
(* Properties of mario_update_moving_sand (SpecSand) *)

\* mario_update_moving_sand has pushed the actor
MovingSandPushed == pc = "mret" /\ ret = TRUE

\* C35: on every moving-quicksand floor the push speed comes from within the
\* table {12, 8, 4, 0}: the index force >> 8 is in 0..3 for every 16-bit
\* force, and the push angle is force << 8 wrapped to 16 bits
C35_PushSpeedFromTable ==
    MovingSandPushed =>
        /\ q.index \in 0..3
        /\ q.pushSpeed \in {F(12), F(8), F(4), 0}
        /\ q.pushAngle = S16(q.force * 256)

\* what holds for every force: the push angle is force << 8 wrapped to 16
\* bits, and the speed is a table entry when the force is in 0 .. 0x3FF
C35_TableForSmallForce ==
    MovingSandPushed =>
        /\ q.pushAngle = S16(q.force * 256)
        /\ (0 <= q.force /\ q.force < 1024) =>
               /\ q.index \in 0..3
               /\ q.pushSpeed = F(12 - 4 * q.index)

\* a force of 0x400 has taken the speed from past the end of the table
C35_PastTheTable ==
    /\ MovingSandPushed
    /\ q.force = 1024
    /\ q.index = 4
    /\ q.pushSpeed = F(-1)

\* a force of 0x320 has taken the last entry of the table
C35_LastEntry ==
    /\ MovingSandPushed
    /\ q.force = 768 + 128
    /\ q.index = 3
    /\ q.pushSpeed = 0

-----------------------------------------------------------------------------
(* Properties of the landings of perform_air_step (SpecStep) *)

\* perform_air_step has returned landed from its quarter-step loop
StepLanded == pc = "ret" /\ ret = AIR_STEP_LANDED /\ trace # <<>>

\* the last quarter-step found a floor at or above its target
LandedOnFoundFloor == q.floor # NoSurface /\ intendedPos.y <= EffFloorHeight

\* that floor is within the hitbox height of the ceiling
SqueezedLanding ==
    LandedOnFoundFloor /\ q.ceilHeight - EffFloorHeight <= m.hitboxHeight

\* C36: whenever perform_air_step reports landed, Y equals the recorded floor
\* height and the recorded floor is the surface landed on, in every landing
\* branch (normal, squeezed, no-floor recovery, ceiling downwarp)
C36_LandedOnRecordedFloor ==
    StepLanded =>
        /\ m.pos.y = m.floorHeight
        /\ LandedOnFoundFloor => m.floor = EffFloor

\* what holds: outside the squeezed landing Y is the recorded floor height
\* and a found floor is the recorded one; in the squeezed landing Y is the
\* found floor's height
C36_LandedWithClearance ==
    StepLanded =>
        /\ ~SqueezedLanding => /\ m.pos.y = m.floorHeight
                               /\ LandedOnFoundFloor => m.floor = EffFloor
        /\ SqueezedLanding => m.pos.y = EffFloorHeight

\* a squeezed landing 3 above the recorded floor height
C36_AboveRecordedFloor ==
    /\ StepLanded
    /\ SqueezedLanding
    /\ m.pos.y = F(3)
    /\ m.floorHeight = 0

\* a landing by the no-floor recovery, on the recorded floor
C36_NoFloorRecovery ==
    /\ StepLanded
    /\ q.floor = NoSurface
    /\ m.pos.y = m.floorHeight

-----------------------------------------------------------------------------
(* Properties of the peak height (SpecStep) *)

\* C37: an air step entered with peakHeight >= pos.y returns with
\* peakHeight >= pos.y, so that the fall height is never negative
C37_FallHeightNotNegative == pc = "ret" => m.peakHeight >= m.pos.y

\* what holds: the peak height is Y after a step that ends with a vertical
\* velocity of 0 or more, and it is at or above Y after a step that neither
\* grabbed a ledge nor landed
C37_PeakUnlessLifted ==
    (pc = "ret" /\ trace # <<>>) =>
        /\ pre.vel.y >= 0 => m.peakHeight = m.pos.y
        /\ ret \notin {AIR_STEP_GRABBED_LEDGE, AIR_STEP_LANDED} => m.peakHeight >= m.pos.y

\* a falling actor has grabbed a ledge above its peak height
C37_LedgeAbovePeak ==
    /\ pc = "ret"
    /\ ret = AIR_STEP_GRABBED_LEDGE
    /\ m.pos.y = F(106)
    /\ m.peakHeight = F(5)

-----------------------------------------------------------------------------
(* Properties of the cannon shot (SpecAct) *)

\* a tick of the shot-from-cannon handler whose air step landed has ended
CannonLanded ==
    /\ pc = "act"
    /\ tick.n > 0
    /\ tick.handler = "ACT_SHOT_FROM_CANNON"
    /\ tick.prev = "step"
    /\ ret = AIR_STEP_LANDED

\* C38: when the air step of the shot-from-cannon handler reports landed, the
\* action at the end of the tick is the dive slide, with or without the wing
\* cap
C38_LandsInDiveSlide == CannonLanded => m.action = "ACT_DIVE_SLIDE"

\* what holds: the landing ends in the dive slide unless the actor wears the
\* wing cap and its vertical velocity is negative, and then it ends in flying
C38_DiveSlideOrFlying ==
    CannonLanded =>
        m.action = IF "MARIO_WING_CAP" \in m.flags /\ m.vel.y < 0 THEN "ACT_FLYING"
                   ELSE "ACT_DIVE_SLIDE"

\* a landing with the wing cap has ended in flying, the dive slide behind it
C38_LandedFlying ==
    /\ CannonLanded
    /\ "MARIO_WING_CAP" \in m.flags
    /\ m.action = "ACT_FLYING"
    /\ m.prevAction = "ACT_DIVE_SLIDE"
    /\ m.pos.y = m.floorHeight

\* a landing without the wing cap has ended in the dive slide
C38_LandedSliding ==
    /\ CannonLanded
    /\ m.action = "ACT_DIVE_SLIDE"

-----------------------------------------------------------------------------
(* Properties of the burning actions (SpecAct) *)

\* a tick of one of the burning handlers has ended
BurningTick ==
    /\ pc = "act"
    /\ tick.n > 0
    /\ tick.handler \in {"ACT_BURNING_JUMP", "ACT_BURNING_FALL", "ACT_LAVA_BOOST"}

\* C39: at the end of every tick of the burning-jump, burning-fall and
\* lava-boost handlers the health of an actor that is not the local player
\* is at least 0x100; for the local player the burning-jump and burning-fall
\* handlers take 10 off the health and set it to 0xFF once that is below
\* 0x100
C39_RemoteNeverKilled ==
    BurningTick =>
        /\ m.playerIndex # 0 => m.health >= 256
        /\ (m.playerIndex = 0 /\ tick.handler # "ACT_LAVA_BOOST") =>
               m.health = IF tick.start.health - 10 < 256 THEN 255
                          ELSE tick.start.health - 10

\* a remote actor's burning tick has taken its health from 0x105 to the floor
\* of 0x100
C39_Witness ==
    /\ BurningTick
    /\ tick.handler = "ACT_BURNING_FALL"
    /\ m.playerIndex # 0
    /\ tick.start.health = 256 + 5
    /\ m.health = 256

\* the local player's health has dropped to 0xFF in a burning jump
C39_LocalClamped ==
    /\ BurningTick
    /\ tick.handler = "ACT_BURNING_JUMP"
    /\ m.playerIndex = 0
    /\ tick.start.health = 256 + 5
    /\ m.health = 255

\* a remote actor that entered the lava boost below 0x100 is back at 0x100
C39_LavaBoostRestores ==
    /\ BurningTick
    /\ tick.handler = "ACT_LAVA_BOOST"
    /\ m.playerIndex # 0
    /\ tick.start.health = 240
    /\ m.health = 256

-----------------------------------------------------------------------------
(* Properties of update_flying (SpecWind) *)

\* a call of update_flying has returned
FlyingDone == pc = "fret"

\* C40: after every update_flying call the pitch is within
\* [-0x2AAA, 0x2AAA] and the forward velocity is not negative, whatever the
\* stick, the prior pitch and the prior forward velocity
C40_PitchAndSpeedBounded ==
    FlyingDone =>
        /\ m.faceAngle.pitch >= -10922
        /\ m.faceAngle.pitch <= 10922
        /\ m.forwardVel >= 0

\* a call that entered with the pitch at the upper limit and a speed whose
\* pitch gain passes the limit has returned with the pitch at the limit
C40_Witness ==
    /\ FlyingDone
    /\ pre.faceAngle.pitch = 10922
    /\ pre.forwardVel = F(40)
    /\ m.faceAngle.pitch = 10922
    /\ m.forwardVel > 0

\* a call that entered with a negative speed has returned with speed 0 and
\* the pitch lowered by 0x400
C40_SpeedFloored ==
    /\ FlyingDone
    /\ pre.forwardVel = F(-5)
    /\ pre.faceAngle.pitch = 0
    /\ m.forwardVel = 0
    /\ m.faceAngle.pitch = -1024 + m.angleVel.pitch

\* a call whose pitch sum left the s16 range has returned within the limits
C40_PastS16 ==
    /\ FlyingDone
    /\ pre.forwardVel = F(6000)
    /\ pre.faceAngle.pitch = 28672
    /\ m.faceAngle.pitch \in {-10922, 10922}

====
